---------------------------- MODULE Spec2Model ----------------------------
(***************************************************************************)
(* A model of the software 2D rasterizer (Surface2D) and of the GUI panel  *)
(* layout resolver (GUIPanel::buffer) of the game engine.                  *)
(*                                                                         *)
(* Surface2D keeps an RGBA image and draws into it with points, Bresenham  *)
(* lines, midpoint circles, scanline triangles and sprite blits.  The      *)
(* layout resolver turns a tree of panels into rectangles clamped to the   *)
(* parent rectangle.  Both compute with f32: the f32 values are modelled   *)
(* bit-exactly (24 bit significand, round to nearest even), because the    *)
(* truncating casts of the rasterizer and the clamps of the resolver       *)
(* depend on the rounding.                                                 *)
(***************************************************************************)
EXTENDS Integers, Sequences, FiniteSets

VARIABLES
    width,            \* Surface2D.width
    height,           \* Surface2D.height
    default_color,    \* Surface2D.default_color (an Rgba<u8>)
    image,            \* Surface2D.image: cell <<x, y>> -> Rgba<u8>
    pre,              \* the image before the last operation
    drawn,            \* the drawing calls since construction or clear
    op,               \* the last operation with its arguments
    screen_size,      \* GUIRenderer.screen_size
    panels,           \* GUIRenderer.panels
    buffered_panels,  \* GUIRenderer.buffered_panels
    render_pass,      \* the draw calls of the last GUI render pass
    data,             \* the bytes the text rasterizer returned last
    active_keys,      \* InputHandler.active_keys
    events,           \* the <<button, state>> events since the last frame
    frame_start_keys, \* active_keys as the last frame left them
    game_objects,     \* Game.game_objects: what each one does when called
    exit,             \* GameState.exit
    running,          \* where Game::run is
    calls,            \* the calls Game::run has made, in order
    frames,           \* the frames drawn
    seen_keys,        \* the active keys each update of the last frame found
    transforms,       \* Prefab.transforms: id -> InstanceTransform
    instances         \* the PrefabInstance handles not yet deleted

vars == <<width, height, default_color, image, pre, drawn, op,
          screen_size, panels, buffered_panels, render_pass, data,
          active_keys, events, frame_start_keys, game_objects, exit, running,
          calls, frames, seen_keys, transforms, instances>>

surfaceVars == <<width, height, default_color, image, pre, drawn>>
guiVars == <<screen_size, panels, buffered_panels, render_pass, data>>
inputVars == <<active_keys, events, frame_start_keys>>
gameVars == <<game_objects, exit, running, calls, frames, seen_keys>>
prefabVars == <<transforms, instances>>
engineVars == <<inputVars, gameVars, prefabVars>>

Min(a, b) == IF a < b THEN a ELSE b
Max(a, b) == IF a > b THEN a ELSE b
Abs(a) == IF a < 0 THEN -a ELSE a

(***************************************************************************)
(* f32.  A finite value is [k |-> "fin", s, m, e] and stands for           *)
(* s * m * 2^e with s in {1, -1} and either m = 0 (then s = 1, e = 0) or   *)
(* 2^23 <= m < 2^24.  The other values are [k |-> "inf", s] and            *)
(* [k |-> "nan"].  Every operation rounds its exact result to the nearest  *)
(* value, ties to the even significand, as the hardware does.  The         *)
(* intermediate integers stay below 2^31.                                  *)
(***************************************************************************)
F32Zero == [k |-> "fin", s |-> 1, m |-> 0, e |-> 0]
F32NaN == [k |-> "nan"]
F32Inf(sign) == [k |-> "inf", s |-> sign]

RECURSIVE BitLen(_)
BitLen(n) == IF n = 0 THEN 0 ELSE 1 + BitLen(n \div 2)

\* s * M * 2^e (plus a non-zero rest below the last bit of M when sticky)
\* rounded to the nearest f32.  A sticky M has more than 24 bits.
F32Round(s, M, e, sticky) ==
    IF M = 0 THEN F32Zero
    ELSE LET sh == BitLen(M) - 24 IN
         IF sh <= 0
         THEN [k |-> "fin", s |-> s, m |-> M * 2^(-sh), e |-> e + sh]
         ELSE LET q    == M \div 2^sh
                  r    == M % 2^sh
                  half == 2^(sh - 1)
                  up   == r > half \/ (r = half /\ (sticky \/ q % 2 = 1))
                  q2   == IF up THEN q + 1 ELSE q
              IN IF q2 = 2^24
                 THEN [k |-> "fin", s |-> s, m |-> 2^23, e |-> e + sh + 1]
                 ELSE [k |-> "fin", s |-> s, m |-> q2, e |-> e + sh]

\* `n as f32`
F32FromInt(n) == F32Round(IF n < 0 THEN -1 ELSE 1, Abs(n), 0, FALSE)

F32Neg(x) ==
    IF x.k = "nan" THEN x
    ELSE IF x.k = "inf" THEN F32Inf(-x.s)
    ELSE IF x.m = 0 THEN x
    ELSE [x EXCEPT !.s = -x.s]

\* |x| < |y| for finite x, y
F32MagLt(x, y) ==
    IF y.m = 0 THEN FALSE
    ELSE IF x.m = 0 THEN TRUE
    ELSE x.e < y.e \/ (x.e = y.e /\ x.m < y.m)

\* x < y; false when either is NaN
F32Lt(x, y) ==
    IF x.k = "nan" \/ y.k = "nan" THEN FALSE
    ELSE IF x.k = "inf" THEN x.s = -1 /\ ~(y.k = "inf" /\ y.s = -1)
    ELSE IF y.k = "inf" THEN y.s = 1
    ELSE IF x.s # y.s THEN x.s = -1
    ELSE IF x.s = 1 THEN F32MagLt(x, y) ELSE F32MagLt(y, x)

F32Le(x, y) == x.k # "nan" /\ y.k # "nan" /\ ~F32Lt(y, x)

\* f32::max and f32::min: a NaN operand is ignored
F32Max(x, y) ==
    IF x.k = "nan" THEN y ELSE IF y.k = "nan" THEN x
    ELSE IF F32Lt(x, y) THEN y ELSE x
F32Min(x, y) ==
    IF x.k = "nan" THEN y ELSE IF y.k = "nan" THEN x
    ELSE IF F32Lt(y, x) THEN y ELSE x

\* |x| + |y| and |x| - |y| with sign s, for finite non-zero |x| >= |y|:
\* x is shifted left by up to 6 guard bits, y right to the same exponent.
F32AddMag(s, x, y, subtract) ==
    LET d      == x.e - y.e
        g      == Min(d, 6)
        X      == x.m * 2^g
        sh     == d - g
        Y      == IF sh >= 24 THEN 0 ELSE y.m \div 2^sh
        sticky == IF sh >= 24 THEN TRUE ELSE y.m % 2^sh # 0
    IN IF subtract
       THEN F32Round(s, X - Y - (IF sticky THEN 1 ELSE 0), x.e - g, sticky)
       ELSE F32Round(s, X + Y, x.e - g, sticky)

F32Add(x, y) ==
    IF x.k = "nan" \/ y.k = "nan" THEN F32NaN
    ELSE IF x.k = "inf"
         THEN IF y.k = "inf" /\ y.s # x.s THEN F32NaN ELSE x
    ELSE IF y.k = "inf" THEN y
    ELSE IF x.m = 0 THEN y
    ELSE IF y.m = 0 THEN x
    ELSE LET big   == IF F32MagLt(x, y) THEN y ELSE x
             small == IF F32MagLt(x, y) THEN x ELSE y
         IN F32AddMag(big.s, big, small, x.s # y.s)

F32Sub(x, y) == F32Add(x, F32Neg(y))

\* The 48 bit product of the significands from 12 bit halves, cut to its
\* top 28 bits.
F32Mul(x, y) ==
    IF x.k = "nan" \/ y.k = "nan" THEN F32NaN
    ELSE IF x.k = "inf" \/ y.k = "inf"
         THEN IF (x.k = "fin" /\ x.m = 0) \/ (y.k = "fin" /\ y.m = 0)
              THEN F32NaN ELSE F32Inf(x.s * y.s)
    ELSE IF x.m = 0 \/ y.m = 0 THEN F32Zero
    ELSE LET a1  == x.m \div 4096
             a0  == x.m % 4096
             b1  == y.m \div 4096
             b0  == y.m % 4096
             mid == a1 * b0 + a0 * b1
             lo  == (mid % 4096) * 4096 + a0 * b0
             H   == a1 * b1 + mid \div 4096 + lo \div 2^24
             L   == lo % 2^24
         IN F32Round(x.s * y.s, H * 16 + L \div 2^20, x.e + y.e + 20,
                     L % 2^20 # 0)

\* Long division: the quotient bits after the binary point, and the rest.
RECURSIVE F32DivBits(_, _, _, _)
F32DivBits(q, r, b, n) ==
    IF n = 0 THEN <<q, r>>
    ELSE IF 2 * r >= b THEN F32DivBits(2 * q + 1, 2 * r - b, b, n - 1)
    ELSE F32DivBits(2 * q, 2 * r, b, n - 1)

F32Div(x, y) ==
    IF x.k = "nan" \/ y.k = "nan" THEN F32NaN
    ELSE IF x.k = "inf"
         THEN IF y.k = "inf" THEN F32NaN ELSE F32Inf(x.s * y.s)
    ELSE IF y.k = "inf" THEN F32Zero
    ELSE IF y.m = 0
         THEN IF x.m = 0 THEN F32NaN ELSE F32Inf(x.s)
    ELSE IF x.m = 0 THEN F32Zero
    ELSE LET qr == F32DivBits(x.m \div y.m, x.m % y.m, y.m, 26)
         IN F32Round(x.s * y.s, qr[1], x.e - y.e - 26, qr[2] # 0)

I32Max == 2147483647
I32Min == -I32Max - 1

\* i32 + i32 leaves the range of i32: the build with overflow checks panics
\* there, the release build wraps.
I32AddOverflows(a, b) ==
    \/ b > 0 /\ a > I32Max - b
    \/ b < 0 /\ a < I32Min - b

I32WrappingAdd(a, b) ==
    IF b > 0 /\ a > I32Max - b THEN (a - I32Max - 1) + (b - I32Max - 1)
    ELSE IF b < 0 /\ a < I32Min - b THEN (a + I32Max + 1) + (b + I32Max + 1)
    ELSE a + b

\* `x as i32`: towards zero, saturating, 0 for NaN
F32ToI32(x) ==
    IF x.k = "nan" THEN 0
    ELSE IF x.k = "inf" THEN (IF x.s = 1 THEN I32Max ELSE I32Min)
    ELSE IF x.m = 0 THEN 0
    ELSE IF x.e >= 8 THEN (IF x.s = 1 THEN I32Max ELSE I32Min)
    ELSE IF x.e >= 0 THEN x.s * (x.m * 2^x.e)
    ELSE IF x.e <= -24 THEN 0
    ELSE x.s * (x.m \div 2^(-x.e))

U8Max == 255

\* `x as u8`: towards zero, saturating, 0 for NaN
F32ToU8(x) == Max(0, Min(U8Max, F32ToI32(x)))

\* `x as u32` for the values below 2^31: towards zero, 0 for negatives
F32ToU32(x) == Max(0, F32ToI32(x))

\* The f32 nearest to n / d (a literal such as 0.1 is the nearest f32)
F32Lit(n, d) == F32Div(F32FromInt(n), F32FromInt(d))


(***************************************************************************)
(* Colors.  texture::Color and image::Rgba<u8> are both <<r, g, b, a>>     *)
(* with channels in 0..255.                                                *)
(***************************************************************************)
TRANSPARENT == <<0, 0, 0, 0>>
BLACK == <<0, 0, 0, 255>>
WHITE == <<255, 255, 255, 255>>
RED == <<255, 0, 0, 255>>

premultiply_not_scaled(c) == c

\* Color::premultiply: (r as f32 * a as f32 / 255.0) as u8 on r, g, b
premultiply(c) ==
    LET ch(v) == F32ToU8(F32Div(F32Mul(F32FromInt(v), F32FromInt(c[4])),
                                F32FromInt(255)))
    IN <<ch(c[1]), ch(c[2]), ch(c[3]), c[4]>>

\* u8 + u8: the build with overflow checks panics above 255, the release
\* build wraps; the wrapped value is the one kept here.
U8WrappingAdd(a, b) == (a + b) % 256

blend_alpha_not_inverted(dst, src) ==
    LET ch(i) == U8WrappingAdd(src[i], (dst[i] * src[4]) \div 255)
    IN <<ch(1), ch(2), ch(3), ch(4)>>

\* Color::blend(dst, src), src premultiplied
blend(dst, src) ==
    LET inv_a == 255 - src[4]
        ch(i) == U8WrappingAdd(src[i], (dst[i] * inv_a) \div 255)
    IN <<ch(1), ch(2), ch(3), ch(4)>>

\* crate::util::from_color_to_rgba: the Rgba<u8> that a replacing draw
\* stores for a color, which is the premultiplied color.
from_color_to_rgba(color) == premultiply(color)

(***************************************************************************)
(* Surface2D.  The image maps the cell <<x, y>> to its Rgba<u8>.  The      *)
(* drawing operations are functions from an image to an image; they read   *)
(* the surface's width and height.                                         *)
(***************************************************************************)
Point(px, py) == [x |-> px, y |-> py]

Cells(w, h) == (0 .. w - 1) \X (0 .. h - 1)

\* `i as u32 >= n` for an i32 i and a u32 n below 2^31: a negative i casts
\* to 2^32 + i, which is above every such n.
CastU32Ge(i, n) == i < 0 \/ i >= n

\* Surface2D::new
new(w, h, color) ==
    [width |-> w, height |-> h,
     default_color |-> from_color_to_rgba(color),
     image |-> [c \in Cells(w, h) |-> from_color_to_rgba(color)]]

from_image_mirrored(w, h, img) ==
    [width |-> w, height |-> h, default_color |-> <<0, 0, 0, 0>>,
     image |-> [c \in Cells(w, h) |-> img[<<w - 1 - c[1], c[2]>>]]]

\* Surface2D::from_image
from_image(w, h, img) ==
    [width |-> w, height |-> h, default_color |-> <<0, 0, 0, 0>>,
     image |-> img]

color_point_write_swapped(position, color) ==
    IF CastU32Ge(position.x, width) \/ CastU32Ge(position.y, height)
    THEN {}
    ELSE {<<<<position.y, position.x>>, from_color_to_rgba(color)>>}

color_point_write_unchecked(position, color) ==
    {<<<<position.x % width, position.y % height>>,
       from_color_to_rgba(color)>>}

\* Surface2D::draw_color_point: the cell it writes and the value, nothing
\* when the position is outside the surface
color_point_write(position, color) ==
    IF CastU32Ge(position.x, width) \/ CastU32Ge(position.y, height)
    THEN {}
    ELSE {<<<<position.x, position.y>>, from_color_to_rgba(color)>>}

\* image.put_pixel for a set of <<cell, value>> with one value for a cell
put_pixels(img, writes) ==
    [c \in DOMAIN img |->
        IF \E w \in writes : w[1] = c
        THEN (CHOOSE w \in writes : w[1] = c)[2]
        ELSE img[c]]

\* Surface2D::draw_color_point
draw_color_point(img, position, color) ==
    put_pixels(img, color_point_write(position, color))

\* draw_color_point with one color for each position of a sequence
draw_color_points(img, positions, color) ==
    put_pixels(img, UNION {color_point_write(positions[i], color) :
                               i \in 1 .. Len(positions)})

\* One channel of the blend of draw_rgba_point:
\* (pixel as f32 * inv_alpha + rgba as f32) as u8
rgba_channel(pixel, rgba, inv_alpha) ==
    F32ToU8(F32Add(F32Mul(F32FromInt(pixel), inv_alpha), F32FromInt(rgba)))

\* Surface2D::draw_rgba_point
draw_rgba_point(img, position, rgba) ==
    IF CastU32Ge(position.x, width) \/ CastU32Ge(position.y, height)
    THEN img
    ELSE LET pixel     == img[<<position.x, position.y>>]
             alpha     == F32Div(F32FromInt(rgba[4]), F32FromInt(255))
             inv_alpha == F32Sub(F32FromInt(1), alpha)
         IN [img EXCEPT ![<<position.x, position.y>>] =
                <<rgba_channel(pixel[1], rgba[1], inv_alpha),
                  rgba_channel(pixel[2], rgba[2], inv_alpha),
                  rgba_channel(pixel[3], rgba[3], inv_alpha),
                  rgba_channel(pixel[4], rgba[4], inv_alpha)>>]

\* The positions (x, y) for x in x0..=x1, and (x, y) for y in y0..=y1
RECURSIVE HorizontalRun(_, _, _)
HorizontalRun(x0, x1, y) ==
    IF x0 > x1 THEN <<>> ELSE <<Point(x0, y)>> \o HorizontalRun(x0 + 1, x1, y)

RECURSIVE VerticalRun(_, _, _)
VerticalRun(x, y0, y1) ==
    IF y0 > y1 THEN <<>> ELSE <<Point(x, y0)>> \o VerticalRun(x, y0 + 1, y1)

\* The loop of draw_line_high: for y in y..=yend
RECURSIVE draw_line_high_loop(_, _, _, _, _, _, _)
draw_line_high_loop(y, yend, x, d, dx, dy, xi) ==
    IF y > yend THEN <<>>
    ELSE <<Point(x, y)>> \o
         (IF d > 0
          THEN draw_line_high_loop(y + 1, yend, x + xi, d + 2 * (dx - dy),
                                   dx, dy, xi)
          ELSE draw_line_high_loop(y + 1, yend, x, d + 2 * dx, dx, dy, xi))

\* Surface2D::draw_line_high: the positions it draws, in order
draw_line_high(start, end) ==
    LET dx0 == end.x - start.x
        dy  == end.y - start.y
        xi  == IF dx0 < 0 THEN -1 ELSE 1
        dx  == IF dx0 < 0 THEN -dx0 ELSE dx0
    IN draw_line_high_loop(start.y, end.y, start.x, (2 * dx) - dy, dx, dy, xi)

\* The loop of draw_line_low: for x in x..=xend
RECURSIVE draw_line_low_loop(_, _, _, _, _, _, _)
draw_line_low_loop(x, xend, y, d, dx, dy, yi) ==
    IF x > xend THEN <<>>
    ELSE <<Point(x, y)>> \o
         (IF d > 0
          THEN draw_line_low_loop(x + 1, xend, y + yi, d + 2 * (dy - dx),
                                  dx, dy, yi)
          ELSE draw_line_low_loop(x + 1, xend, y, d + 2 * dy, dx, dy, yi))

draw_line_low_late_step(start, end) ==
    LET dx  == end.x - start.x
        dy0 == end.y - start.y
        yi  == IF dy0 < 0 THEN -1 ELSE 1
        dy  == IF dy0 < 0 THEN -dy0 ELSE dy0
    IN draw_line_low_loop(start.x, end.x, start.y, 2 * (dy - dx), dx, dy, yi)

\* Surface2D::draw_line_low: the positions it draws, in order
draw_line_low(start, end) ==
    LET dx  == end.x - start.x
        dy0 == end.y - start.y
        yi  == IF dy0 < 0 THEN -1 ELSE 1
        dy  == IF dy0 < 0 THEN -dy0 ELSE dy0
    IN draw_line_low_loop(start.x, end.x, start.y, (2 * dy) - dx, dx, dy, yi)

line_positions_unordered(start, end) ==
    LET dx == Abs(end.x - start.x)
        dy == Abs(end.y - start.y)
    IN IF dx = 0 THEN VerticalRun(start.x, start.y, end.y)
       ELSE IF dy = 0 THEN HorizontalRun(start.x, end.x, start.y)
       ELSE IF dy < dx THEN draw_line_low(start, end)
       ELSE draw_line_high(start, end)

line_positions_open(start, end) ==
    LET dx == Abs(end.x - start.x)
        dy == Abs(end.y - start.y)
    IN IF dx = 0
       THEN VerticalRun(start.x, Min(start.y, end.y), Max(start.y, end.y) - 1)
       ELSE IF dy = 0
       THEN HorizontalRun(Min(start.x, end.x), Max(start.x, end.x) - 1,
                          start.y)
       ELSE IF dy < dx
       THEN (IF start.x > end.x THEN draw_line_low(end, start)
             ELSE draw_line_low(start, end))
       ELSE (IF start.y > end.y THEN draw_line_high(end, start)
             ELSE draw_line_high(start, end))

\* Surface2D::draw_line: the positions it draws, in order
line_positions(start, end) ==
    LET dx == Abs(end.x - start.x)
        dy == Abs(end.y - start.y)
    IN IF dx = 0
       THEN (IF end.y < start.y THEN VerticalRun(start.x, end.y, start.y)
             ELSE VerticalRun(start.x, start.y, end.y))
       ELSE IF dy = 0
       THEN (IF end.x < start.x THEN HorizontalRun(end.x, start.x, start.y)
             ELSE HorizontalRun(start.x, end.x, start.y))
       ELSE IF dy < dx
       THEN (IF start.x > end.x THEN draw_line_low(end, start)
             ELSE draw_line_low(start, end))
       ELSE (IF start.y > end.y THEN draw_line_high(end, start)
             ELSE draw_line_high(start, end))

\* Surface2D::draw_line
draw_line(img, start, end, color) ==
    draw_color_points(img, line_positions(start, end), color)

\* The positions of draw_line for each <<start, end>> of a sequence
RECURSIVE lines_positions(_)
lines_positions(lines) ==
    IF lines = <<>> THEN <<>>
    ELSE line_positions(Head(lines)[1], Head(lines)[2])
         \o lines_positions(Tail(lines))

\* Surface2D::draw_circle_octants: the 8 positions it draws
draw_circle_octants(center, x, y) ==
    <<Point(center.x + x, center.y + y), Point(center.x - x, center.y + y),
      Point(center.x + x, center.y - y), Point(center.x - x, center.y - y),
      Point(center.x + y, center.y + x), Point(center.x - y, center.y + x),
      Point(center.x + y, center.y - x), Point(center.x - y, center.y - x)>>

\* Surface2D::draw_circle_octants_filled: the positions of its 4 lines
draw_circle_octants_filled(center, x, y) ==
    lines_positions(
    <<<<Point(center.x - x, center.y + y), Point(center.x + x, center.y + y)>>,
      <<Point(center.x - x, center.y - y), Point(center.x + x, center.y - y)>>,
      <<Point(center.x - y, center.y + x), Point(center.x + y, center.y + x)>>,
      <<Point(center.x - y, center.y - x), Point(center.x + y, center.y - x)>>>>)

\* The loop of draw_circle, while x <= y: the positions it draws
RECURSIVE draw_circle_loop(_, _, _, _, _, _, _)
draw_circle_loop(center, fill, x, y, d, da, db) ==
    IF ~(x <= y) THEN <<>>
    ELSE (IF fill THEN draw_circle_octants_filled(center, x, y)
          ELSE draw_circle_octants(center, x, y))
         \o (IF d < 0
             THEN draw_circle_loop(center, fill, x + 1, y, d + da,
                                   da + 8, db + 8)
             ELSE draw_circle_loop(center, fill, x + 1, y - 1, d + db,
                                   da + 8, db + 16))

circle_positions_late_start(center, radius, fill) ==
    draw_circle_loop(center, fill, 1, radius, 5 - 4 * radius + 12, 20,
                     20 - 8 * radius + 8)

\* Surface2D::draw_circle: the positions it draws
circle_positions(center, radius, fill) ==
    draw_circle_loop(center, fill, 0, radius, 5 - 4 * radius, 12,
                     20 - 8 * radius)

\* Surface2D::draw_circle
draw_circle(img, center, radius, color, fill) ==
    draw_color_points(img, circle_positions(center, radius, fill), color)

\* The loop of draw_triangle_bottom_flat, for scanline_y in y..=yend: the
\* positions it draws
RECURSIVE bottom_flat_loop(_, _, _, _, _, _)
bottom_flat_loop(scanline_y, yend, current_x1, current_x2, inv_slope1, inv_slope2) ==
    IF scanline_y > yend THEN <<>>
    ELSE line_positions(Point(F32ToI32(current_x1), scanline_y),
                        Point(F32ToI32(current_x2), scanline_y))
         \o bottom_flat_loop(scanline_y + 1, yend,
                             F32Add(current_x1, inv_slope1),
                             F32Add(current_x2, inv_slope2),
                             inv_slope1, inv_slope2)

\* Surface2D::draw_triangle_bottom_flat: the positions it draws
draw_triangle_bottom_flat(p0, p1, p2) ==
    LET inv_slope1 == F32Div(F32FromInt(p1.x - p0.x), F32FromInt(p1.y - p0.y))
        inv_slope2 == F32Div(F32FromInt(p2.x - p0.x), F32FromInt(p2.y - p0.y))
    IN bottom_flat_loop(p0.y, p1.y, F32FromInt(p0.x), F32FromInt(p0.x),
                        inv_slope1, inv_slope2)

\* The loop of draw_triangle_top_flat, for scanline_y in (ystart..y).rev(),
\* from y - 1 down to ystart: the positions it draws
RECURSIVE top_flat_loop(_, _, _, _, _, _)
top_flat_loop(scanline_y, ystart, current_x1, current_x2, inv_slope1, inv_slope2) ==
    IF scanline_y < ystart THEN <<>>
    ELSE line_positions(Point(F32ToI32(current_x1), scanline_y),
                        Point(F32ToI32(current_x2), scanline_y))
         \o top_flat_loop(scanline_y - 1, ystart,
                          F32Sub(current_x1, inv_slope1),
                          F32Sub(current_x2, inv_slope2),
                          inv_slope1, inv_slope2)

\* Surface2D::draw_triangle_top_flat: the positions it draws
draw_triangle_top_flat(p0, p1, p2) ==
    LET inv_slope1 == F32Div(F32FromInt(p2.x - p0.x), F32FromInt(p2.y - p0.y))
        inv_slope2 == F32Div(F32FromInt(p2.x - p1.x), F32FromInt(p2.y - p1.y))
    IN top_flat_loop(p2.y - 1, p0.y, F32FromInt(p2.x), F32FromInt(p2.x),
                     inv_slope1, inv_slope2)

sorted_vertices_ties_swapped(p0, p1, p2) ==
    IF p0.y > p1.y
    THEN (IF p1.y > p2.y THEN <<p2, p1, p0>>
          ELSE IF p0.y > p2.y THEN <<p1, p2, p0>>
          ELSE <<p1, p0, p2>>)
    ELSE IF p0.y > p2.y THEN <<p2, p0, p1>>
    ELSE IF p1.y >= p2.y THEN <<p0, p2, p1>>
    ELSE <<p0, p1, p2>>

\* The vertices of draw_triangle_filled sorted by y ascending
sorted_vertices(p0, p1, p2) ==
    IF p0.y > p1.y
    THEN (IF p1.y > p2.y THEN <<p2, p1, p0>>
          ELSE IF p0.y > p2.y THEN <<p1, p2, p0>>
          ELSE <<p1, p0, p2>>)
    ELSE IF p0.y > p2.y THEN <<p2, p0, p1>>
    ELSE IF p1.y > p2.y THEN <<p0, p2, p1>>
    ELSE <<p0, p1, p2>>

\* The point of draw_triangle_filled that splits the long edge at p1.y
split_point(p0, p1, p2) ==
    Point(F32ToI32(F32Add(F32FromInt(p0.x),
              F32Mul(F32Div(F32Sub(F32FromInt(p1.y), F32FromInt(p0.y)),
                            F32Sub(F32FromInt(p2.y), F32FromInt(p0.y))),
                     F32Sub(F32FromInt(p2.x), F32FromInt(p0.x))))),
          p1.y)

\* Surface2D::draw_triangle_filled: the positions it draws
draw_triangle_filled(q0, q1, q2) ==
    LET v  == sorted_vertices(q0, q1, q2)
        p0 == v[1]
        p1 == v[2]
        p2 == v[3]
    IN IF p1.y = p2.y THEN draw_triangle_bottom_flat(p0, p1, p2)
       ELSE IF p0.y = p1.y THEN draw_triangle_top_flat(p0, p1, p2)
       ELSE LET p3 == split_point(p0, p1, p2)
            IN draw_triangle_bottom_flat(p0, p1, p3)
               \o draw_triangle_top_flat(p1, p3, p2)

\* The calls draw_triangle_filled makes to the two flat fills, in order
triangle_fill_calls(q0, q1, q2) ==
    LET v  == sorted_vertices(q0, q1, q2)
        p0 == v[1]
        p1 == v[2]
        p2 == v[3]
    IN IF p1.y = p2.y
       THEN <<[fn |-> "bottom_flat", p0 |-> p0, p1 |-> p1, p2 |-> p2]>>
       ELSE IF p0.y = p1.y
       THEN <<[fn |-> "top_flat", p0 |-> p0, p1 |-> p1, p2 |-> p2]>>
       ELSE LET p3 == split_point(p0, p1, p2)
            IN <<[fn |-> "bottom_flat", p0 |-> p0, p1 |-> p1, p2 |-> p3],
                 [fn |-> "top_flat", p0 |-> p1, p1 |-> p3, p2 |-> p2]>>

\* The denominators of inv_slope1 and inv_slope2 in a call of a flat fill
inv_slope_denominators(call) ==
    IF call.fn = "bottom_flat"
    THEN <<call.p1.y - call.p0.y, call.p2.y - call.p0.y>>
    ELSE <<call.p2.y - call.p0.y, call.p2.y - call.p1.y>>

\* Surface2D::draw_triangle
draw_triangle(img, p0, p1, p2, color, fill) ==
    draw_color_points(img,
        IF fill THEN draw_triangle_filled(p0, p1, p2)
        ELSE lines_positions(<<<<p0, p1>>, <<p1, p2>>, <<p2, p0>>>>),
        color)

\* Surface2D::clear
\* The surface's resize, which Renderer2D::resize calls on its two sprites:
\* the buffer is reallocated to the new dimensions and refilled with the
\* clear color.
resize_keeping_content(new_w, new_h) ==
    [width |-> new_w, height |-> new_h, default_color |-> default_color,
     image |-> [c \in Cells(new_w, new_h) |->
                   IF c \in DOMAIN image THEN image[c] ELSE default_color]]

resize(new_w, new_h) ==
    [width |-> new_w, height |-> new_h, default_color |-> default_color,
     image |-> [c \in Cells(new_w, new_h) |-> default_color]]

clear_to_transparent(img) == [c \in DOMAIN img |-> <<0, 0, 0, 0>>]

clear(img) == [c \in DOMAIN img |-> default_color]

\* The loop of draw_sprite over sprite.enumerate_pixels(), row by row, from
\* the i-th pixel up to the n-th; a sprite is [width, height, pixels].
RECURSIVE draw_sprite_loop(_, _, _, _, _)
draw_sprite_loop(img, sprite, position, i, n) ==
    IF i >= n THEN img
    ELSE LET x == i % sprite.width
             y == i \div sprite.width
         IN draw_sprite_loop(
                draw_rgba_point(img, Point(I32WrappingAdd(x, position.x),
                                           I32WrappingAdd(y, position.y)),
                                sprite.pixels[<<x, y>>]),
                sprite, position, i + 1, n)

\* The first pixel of the sprite, in the order of the loop, at which
\* `x as i32 + position.x` or `y as i32 + position.y` overflows; the number
\* of pixels if there is none.
RECURSIVE draw_sprite_overflow_at(_, _, _)
draw_sprite_overflow_at(sprite, position, i) ==
    IF i >= sprite.width * sprite.height THEN i
    ELSE IF \/ I32AddOverflows(i % sprite.width, position.x)
            \/ I32AddOverflows(i \div sprite.width, position.y)
         THEN i
         ELSE draw_sprite_overflow_at(sprite, position, i + 1)

\* Surface2D::draw_sprite where no addition panics
draw_sprite(img, sprite, position) ==
    draw_sprite_loop(img, sprite, position, 0, sprite.width * sprite.height)

\* Surface2D::draw_sprite in either build: with overflow checks the call
\* panics at the first addition that overflows, having composited the
\* pixels before it.
draw_sprite_call(img, sprite, position, overflow_checks) ==
    LET at == draw_sprite_overflow_at(sprite, position, 0)
        panicked == overflow_checks /\ at < sprite.width * sprite.height
    IN [image |-> IF panicked
                  THEN draw_sprite_loop(img, sprite, position, 0, at)
                  ELSE draw_sprite(img, sprite, position),
        panicked |-> panicked]

(***************************************************************************)
(* The panel tree and its layout.  A GUITransform is                       *)
(* [kind |-> "Absolute", x, y] with u32 x, y or [kind |-> "Relative",      *)
(* percentage_x, percentage_y] with f32 ones; a GUIPanel is                *)
(* [active, position, dimensions, content], its content                    *)
(* [kind |-> "Image"], [kind |-> "Text"] or                                *)
(* [kind |-> "Elements", children |-> a sequence of panels].  A            *)
(* GUIPanelBuffered is [left, top, right, bottom, texture, children]: the  *)
(* four vertex coordinates, what its texture is made from, its children.   *)
(***************************************************************************)
Absolute(x, y) == [kind |-> "Absolute", x |-> x, y |-> y]
Relative(percentage_x, percentage_y) ==
    [kind |-> "Relative", percentage_x |-> percentage_x,
     percentage_y |-> percentage_y]

GUIPanel(active, position, dimensions, content) ==
    [active |-> active, position |-> position, dimensions |-> dimensions,
     content |-> content]

Elements(children) == [kind |-> "Elements", children |-> children]

\* GUIPanel::buffer, `let (left, top) = match self.position`
top_left(position, parent_anchor, parent_dimensions) ==
    IF position.kind = "Absolute"
    THEN <<F32Add(parent_anchor[1], F32FromInt(position.x)),
           F32Add(parent_anchor[2], F32FromInt(position.y))>>
    ELSE <<F32Add(parent_anchor[1], F32Mul(parent_dimensions[1], position.percentage_x)),
           F32Add(parent_anchor[2], F32Mul(parent_dimensions[2], position.percentage_y))>>

bottom_right_not_offset(dimensions, corner, parent_dimensions) ==
    IF dimensions.kind = "Absolute"
    THEN <<F32FromInt(dimensions.x), F32FromInt(dimensions.y)>>
    ELSE <<F32Mul(parent_dimensions[1], dimensions.percentage_x),
           F32Mul(parent_dimensions[2], dimensions.percentage_y)>>

bottom_right_inwards(dimensions, corner, parent_dimensions) ==
    IF dimensions.kind = "Absolute"
    THEN <<F32Sub(corner[1], F32FromInt(dimensions.x)),
           F32Sub(corner[2], F32FromInt(dimensions.y))>>
    ELSE <<F32Sub(corner[1], F32Mul(parent_dimensions[1], dimensions.percentage_x)),
           F32Sub(corner[2], F32Mul(parent_dimensions[2], dimensions.percentage_y))>>

\* GUIPanel::buffer, `let (right, bottom) = match self.dimensions`, from
\* the corner (left, top)
bottom_right(dimensions, corner, parent_dimensions) ==
    IF dimensions.kind = "Absolute"
    THEN <<F32Add(corner[1], F32FromInt(dimensions.x)),
           F32Add(corner[2], F32FromInt(dimensions.y))>>
    ELSE <<F32Add(corner[1], F32Mul(parent_dimensions[1], dimensions.percentage_x)),
           F32Add(corner[2], F32Mul(parent_dimensions[2], dimensions.percentage_y))>>

clamp_edge_lower_only(edge, anchor, dimension) == F32Max(edge, anchor)

\* GUIPanel::buffer, `edge.max(parent_anchor).min(parent_dimensions +
\* parent_anchor)` on one axis
clamp_edge(edge, anchor, dimension) ==
    F32Min(F32Max(edge, anchor), F32Add(dimension, anchor))

inactive_never(panel) == FALSE

\* GUIPanel::buffer, `if !self.active`
inactive(panel) == ~panel.active

RECURSIVE buffer(_, _, _)
RECURSIVE buffer_children(_, _, _)

buffer_children_reversed(children, anchor, dimensions) ==
    IF children = <<>> THEN <<>>
    ELSE buffer_children(Tail(children), anchor, dimensions)
         \o buffer(Head(children), anchor, dimensions)

\* GUIPanel::buffer, the loop over the children of an Elements panel
buffer_children(children, anchor, dimensions) ==
    IF children = <<>> THEN <<>>
    ELSE buffer(Head(children), anchor, dimensions)
         \o buffer_children(Tail(children), anchor, dimensions)

\* GUIPanel::buffer: <<>> for None, <<panel_buffered>> for Some
buffer(panel, parent_anchor, parent_dimensions) ==
    IF inactive(panel) THEN <<>>
    ELSE LET tl     == top_left(panel.position, parent_anchor,
                                parent_dimensions)
             br     == bottom_right(panel.dimensions, tl, parent_dimensions)
             left   == clamp_edge(tl[1], parent_anchor[1],
                                  parent_dimensions[1])
             top    == clamp_edge(tl[2], parent_anchor[2],
                                  parent_dimensions[2])
             right  == clamp_edge(br[1], parent_anchor[1],
                                  parent_dimensions[1])
             bottom == clamp_edge(br[2], parent_anchor[2],
                                  parent_dimensions[2])
             kind   == panel.content.kind
         IN <<[left |-> left, top |-> top, right |-> right,
               bottom |-> bottom,
               texture |->
                   IF kind = "Image" THEN [from |-> "image"]
                   ELSE IF kind = "Text"
                   THEN [from |-> "text",
                         width |-> F32ToU32(F32Sub(right, left)),
                         height |-> F32ToU32(F32Sub(bottom, top))]
                   ELSE [from |-> "color"],
               children |->
                   IF kind = "Elements"
                   THEN buffer_children(panel.content.children,
                            <<left, top>>,
                            <<F32Sub(right, left), F32Sub(bottom, top)>>)
                   ELSE <<>>]>>

\* render_pass.draw_indexed with the vertex buffer and the bind group of a
\* buffered panel: the quad it draws
draw_indexed(node) ==
    [left |-> node.left, top |-> node.top, right |-> node.right,
     bottom |-> node.bottom, texture |-> node.texture]

RECURSIVE render(_)
RECURSIVE render_each(_)

render_children_first(node) ==
    render_each(node.children) \o <<draw_indexed(node)>>

\* GUIPanelBuffered::render: the draw calls it issues, in order
render(node) == <<draw_indexed(node)>> \o render_each(node.children)

\* `for child in &self.children { child.render(render_pass) }`
render_each(nodes) ==
    IF nodes = <<>> THEN <<>>
    ELSE render(Head(nodes)) \o render_each(Tail(nodes))

\* GUIRenderer::render: the draw calls of the GUI render pass
gui_render(nodes) == render_each(nodes)

\* GUIRenderer::update: the panels that buffer to Some, against the screen
update(ps, size) ==
    buffer_children(ps, <<F32FromInt(0), F32FromInt(0)>>,
                    <<F32FromInt(size[1]), F32FromInt(size[2])>>)

(***************************************************************************)
(* The inputs of the surface operations.                                   *)
(***************************************************************************)
SurfW == 4
SurfH == 3
TriMax == 4
CircleSurf == 16
MaxRadius == 5

\* texture::Color arguments: opaque, transparent and translucent ones
Colors == {TRANSPARENT, RED, WHITE, <<255, 128, 0, 65>>, <<10, 200, 255, 128>>}
LineColors == {<<10, 200, 255, 128>>}

\* Rgba<u8> pixels as an image decoder gives them (not premultiplied)
Palette == <<<<255, 0, 0, 128>>, <<0, 0, 0, 0>>, <<40, 80, 255, 255>>,
             <<255, 255, 255, 65>>, <<51, 102, 0, 200>>>>

\* The images a surface is built from or blits: the palette laid out
\* diagonally, starting at its k-th color
PaletteImage(w, h, k) ==
    [c \in Cells(w, h) |-> Palette[((c[1] + 2 * c[2] + k) % Len(Palette)) + 1]]

Sprites ==
    {[width |-> w, height |-> 2, pixels |-> PaletteImage(w, 2, k)] :
        w \in {1, 2}, k \in 0 .. Len(Palette) - 1}

\* Positions on the surface and up to one cell around it and far from it
NearPositions(w, h) == {Point(x, y) : x \in -1 .. w, y \in -1 .. h}
\* Positions within a sprite's width or height of the end of i32
\* (in TLC's own integers x - position.x must stay computable)
SpriteFarPositions ==
    {Point(I32Max, 0), Point(I32Max - 1, 1), Point(0, I32Max - 1),
     Point(-I32Max, 0), Point(1, -I32Max)}

FarPositions(w, h) ==
    {Point(x, y) : x \in {-I32Max - 1, w + 100, I32Max},
                   y \in {-I32Max - 1, 0, I32Max}}

NoGui ==
    /\ screen_size = <<0, 0>> /\ panels = <<>> /\ buffered_panels = <<>>
    /\ render_pass = <<>>
    /\ data = <<>>

\* No key pressed, no prefab instance
NoInput == active_keys = <<>> /\ events = {} /\ frame_start_keys = <<>>
NoPrefab == transforms = <<>> /\ instances = <<>>

\* No game running
NoGame ==
    /\ game_objects = <<>> /\ exit = FALSE /\ running = "none"
    /\ calls = <<>> /\ frames = 0 /\ seen_keys = <<>>

NoEngine == NoInput /\ NoGame /\ NoPrefab

\* The surface of a new game: Surface2D::new or Surface2D::from_image
InitSurface(w, h, colors, ks) ==
    /\ \E made \in {[s |-> new(w, h, c), call |-> [name |-> "new", color |-> c]] :
                       c \in colors}
                 \cup {[s |-> from_image(w, h, PaletteImage(w, h, k)),
                        call |-> [name |-> "from_image",
                                  img |-> [width |-> w, height |-> h,
                                           pixels |-> PaletteImage(w, h, k)]]] :
                           k \in ks} :
          /\ width = made.s.width
          /\ height = made.s.height
          /\ default_color = made.s.default_color
          /\ image = made.s.image
          /\ pre = made.s.image
          /\ op = made.call
    /\ drawn = 0
    /\ NoGui
    /\ NoEngine

\* One drawing call on the surface as construction or clear left it
Draws(newImage, call) ==
    /\ op.name \in {"new", "from_image", "clear"}
    /\ image' = newImage
    /\ pre' = image
    /\ drawn' = drawn + 1
    /\ op' = call
    /\ UNCHANGED <<width, height, default_color, guiVars, engineVars>>

DrawColorPoint ==
    \E position \in NearPositions(width, height) \cup FarPositions(width, height),
       color \in Colors :
        Draws(draw_color_point(image, position, color),
              [name |-> "draw_color_point", position |-> position,
               color |-> color])

DrawRgbaPoint ==
    \E position \in NearPositions(width, height) \cup FarPositions(width, height),
       i \in 1 .. Len(Palette) :
        Draws(draw_rgba_point(image, position, Palette[i]),
              [name |-> "draw_rgba_point", position |-> position,
               rgba |-> Palette[i]])

DrawLine ==
    \E start \in NearPositions(width, height),
       end \in NearPositions(width, height), color \in LineColors :
        Draws(draw_line(image, start, end, color),
              [name |-> "draw_line", start |-> start, end |-> end,
               color |-> color])

DrawSprite ==
    \E sprite \in Sprites, overflow_checks \in BOOLEAN,
       position \in NearPositions(width, height) \cup SpriteFarPositions :
        LET call == draw_sprite_call(image, sprite, position, overflow_checks)
        IN Draws(call.image,
                 [name |-> "draw_sprite", sprite |-> sprite,
                  position |-> position, panicked |-> call.panicked])

DrawCircle ==
    \E cx \in {9, 10, 11}, cy \in {9, 10, 11}, radius \in 0 .. MaxRadius,
       fill \in BOOLEAN, color \in {RED} :
        Draws(draw_circle(image, Point(cx, cy), radius, color, fill),
              [name |-> "draw_circle", center |-> Point(cx, cy),
               radius |-> radius, color |-> color, fill |-> fill])

\* Surface2D::clear on a surface that has been drawn on
Clear ==
    /\ op.name \notin {"new", "from_image", "clear", "none"}
    /\ image' = clear(image)
    /\ pre' = clear(image)
    /\ drawn' = 0
    /\ op' = [name |-> "clear", drawn |-> drawn]
    /\ UNCHANGED <<width, height, default_color, guiVars, engineVars>>

TriXs == {x \in 0 .. TriMax : x % 2 = 0}
TriYs == 0 .. TriMax
TriPoints == {Point(x, y) : x \in TriXs, y \in TriYs}

DrawTriangle ==
    \E p0 \in TriPoints, p1 \in TriPoints, p2 \in TriPoints,
       fill \in BOOLEAN, color \in {RED} :
        Draws(draw_triangle(image, p0, p1, p2, color, fill),
              [name |-> "draw_triangle", p0 |-> p0, p1 |-> p1, p2 |-> p2,
               color |-> color, fill |-> fill])

\* Points, lines and sprites on a small surface
Init == InitSurface(SurfW, SurfH, {TRANSPARENT, WHITE}, {0, 2})
Next == DrawColorPoint \/ DrawRgbaPoint \/ DrawLine \/ DrawSprite \/ Clear
Spec == Init /\ [][Next]_vars

\* Triangles on a surface that holds every vertex
InitTriangle == InitSurface(TriMax + 1, TriMax + 1, {TRANSPARENT}, {})
NextTriangle == DrawTriangle \/ Clear
SpecTriangle == InitTriangle /\ [][NextTriangle]_vars

\* Circles on a surface that holds every circle
InitCircle == InitSurface(CircleSurf, CircleSurf, {TRANSPARENT}, {1})
NextCircle == DrawCircle \/ Clear
SpecCircle == InitCircle /\ [][NextCircle]_vars

(***************************************************************************)
(* The text rasterizer.  The font library is outside the program: whether  *)
(* a custom font parses, whether pt_to_px_scale gives a scale, and the      *)
(* calls outline.draw makes back are inputs.  A call back is                *)
(* [min_x, min_y, x, y, c]: the glyph's px_bounds().min as integers, the    *)
(* pixel's offsets and its coverage as an f32.  A buffer is a sequence of   *)
(* bytes whose i-th element is the byte of index i - 1.                     *)
(***************************************************************************)
\* vec![0; n]
zeros(n) == [i \in 1 .. n |-> 0]

\* The closure of rasterize on one call back
rasterize_pixel(bytes, cb, box_width, color) ==
    LET y == F32ToU32(F32FromInt(cb.min_y)) + cb.y
        x == F32ToU32(F32FromInt(cb.min_x)) + cb.x
        index == (y * box_width + x) * 4
        byte(ch) == F32ToU8(F32Mul(F32Mul(cb.c, ch), F32FromInt(255)))
    IN IF index + 3 < Len(bytes)
       THEN [i \in 1 .. Len(bytes) |->
                IF i - 1 \in index .. index + 3
                THEN byte(color[i - index])
                ELSE bytes[i]]
       ELSE bytes

RECURSIVE rasterize_loop(_, _, _, _, _)
rasterize_loop(bytes, draws, i, box_width, color) ==
    IF i > Len(draws) THEN bytes
    ELSE rasterize_loop(rasterize_pixel(bytes, draws[i], box_width, color),
                        draws, i + 1, box_width, color)

\* TextRasterizer::rasterize
rasterize(draws, box_width, box_height, color) ==
    rasterize_loop(zeros(box_width * 4 * box_height), draws, 1, box_width, color)

get_rasterized_data_unparsed_font_as_default(text, box_width, box_height, parses, px_scale, draws) ==
    IF px_scale = "Some" THEN rasterize(draws, box_width, box_height, text.color)
    ELSE zeros(box_width * 4 * box_height)

\* TextRasterizer::get_rasterized_data_from_text; text is [font, color],
\* parses the outcome of FontRef::try_from_slice on a custom font's data,
\* px_scale that of pt_to_px_scale, draws the calls back of outline.draw
get_rasterized_data_from_text(text, box_width, box_height, parses, px_scale, draws) ==
    IF text.font = "Custom"
    THEN IF parses /\ px_scale = "Some"
         THEN rasterize(draws, box_width, box_height, text.color)
         ELSE zeros(box_width * 4 * box_height)
    ELSE IF px_scale = "Some"
         THEN rasterize(draws, box_width, box_height, text.color)
         ELSE zeros(box_width * 4 * box_height)

(***************************************************************************)
(* Sequences of drawing calls on a small surface.                          *)
(***************************************************************************)
SeqSurf == 2
MaxDraws == 3

\* One more drawing call, after any calls before it
DrawsNext(newImage, call) ==
    /\ op.name # "none"
    /\ drawn < MaxDraws
    /\ image' = newImage
    /\ pre' = image
    /\ drawn' = drawn + 1
    /\ op' = call
    /\ UNCHANGED <<width, height, default_color, guiVars, engineVars>>

NextDrawColorPoint ==
    \E position \in {Point(0, 0)}, color \in {RED, <<255, 128, 0, 65>>} :
        DrawsNext(draw_color_point(image, position, color),
                  [name |-> "draw_color_point", position |-> position,
                   color |-> color])

NextDrawRgbaPoint ==
    \E position \in {Point(0, 0), Point(1, 1)}, rgba \in {Palette[1]} :
        DrawsNext(draw_rgba_point(image, position, rgba),
                  [name |-> "draw_rgba_point", position |-> position,
                   rgba |-> rgba])

NextDrawLine ==
    \E ends \in {<<Point(0, 1), Point(1, 0)>>, <<Point(2, 0), Point(-1, 0)>>},
       color \in {WHITE} :
        DrawsNext(draw_line(image, ends[1], ends[2], color),
                  [name |-> "draw_line", start |-> ends[1], end |-> ends[2],
                   color |-> color])

NextDrawSprite ==
    \E placed \in {<<1, 3, Point(1, 0)>>, <<2, 0, Point(-1, 1)>>} :
        LET sprite == [width |-> placed[1], height |-> 2,
                       pixels |-> PaletteImage(placed[1], 2, placed[2])]
        IN DrawsNext(draw_sprite(image, sprite, placed[3]),
                     [name |-> "draw_sprite", sprite |-> sprite,
                      position |-> placed[3], panicked |-> FALSE])

\* Renderer2D::resize: the sprites are resized to the window's new size
\* unless the window keeps its aspect ratio.
ResizeModes == {"KeepAspectRatio", "Resize"}
NewSizes == {<<0, 1>>, <<1, 2>>, <<3, 2>>}

RendererResize ==
    \E resize_mode \in ResizeModes, new_size \in NewSizes :
        /\ op.name \notin {"none", "resize"}
        /\ LET s == IF resize_mode # "KeepAspectRatio"
                    THEN resize(new_size[1], new_size[2])
                    ELSE [width |-> width, height |-> height,
                          default_color |-> default_color, image |-> image]
           IN /\ width' = s.width
              /\ height' = s.height
              /\ default_color' = s.default_color
              /\ image' = s.image
        /\ pre' = image
        /\ drawn' = IF resize_mode # "KeepAspectRatio" THEN 0 ELSE drawn
        /\ op' = [name |-> "resize", resize_mode |-> resize_mode,
                  new_w |-> new_size[1], new_h |-> new_size[2],
                  drawn |-> drawn]
        /\ UNCHANGED <<guiVars, engineVars>>

InitSequence ==
    InitSurface(SeqSurf, SeqSurf, {TRANSPARENT, <<10, 200, 255, 128>>},
                0 .. Len(Palette) - 1)
NextSequence ==
    \/ NextDrawColorPoint \/ NextDrawRgbaPoint \/ NextDrawLine
    \/ NextDrawSprite \/ Clear \/ RendererResize
SpecSequence == InitSequence /\ [][NextSequence]_vars

(***************************************************************************)
(* Blending colors onto one cell, one after another.                       *)
(***************************************************************************)
MaxBlends == 2

\* The colors blended, before premultiplication
BlendColors ==
    {<<255, 255, 255, 255>>, <<0, 0, 0, 255>>, <<40, 80, 255, 255>>,
     <<255, 255, 255, 0>>, <<0, 0, 0, 0>>, <<255, 0, 128, 1>>,
     <<255, 255, 255, 127>>, <<255, 254, 1, 128>>, <<255, 255, 255, 254>>,
     <<1, 1, 1, 254>>, <<255, 255, 255, 65>>, <<10, 200, 255, 128>>}
    \cup {<<255, 254, 1, a>> : a \in {2, 64, 129, 191, 253}}

\* The colors the cell starts with
CellColors ==
    {<<255, 255, 255, 255>>, <<0, 0, 0, 0>>, <<255, 255, 255, 0>>,
     <<1, 2, 3, 4>>, <<254, 127, 128, 255>>, <<0, 0, 0, 255>>,
     <<200, 100, 50, 25>>, <<255, 0, 255, 128>>}

TheCell == <<0, 0>>

\* A surface of one cell, built from an image of one pixel
InitBlend ==
    /\ \E dst \in CellColors :
          LET s == from_image(1, 1, [c \in Cells(1, 1) |-> dst])
          IN /\ width = s.width
             /\ height = s.height
             /\ default_color = s.default_color
             /\ image = s.image
             /\ pre = s.image
             /\ op = [name |-> "from_image",
                      img |-> [width |-> 1, height |-> 1, pixels |-> s.image]]
    /\ drawn = 0
    /\ NoGui
    /\ NoEngine

\* Color::blend(&dst, &color.premultiply()) with dst the cell's color
Blend ==
    \E color \in BlendColors :
        LET dst == image[TheCell]
            src == premultiply(color)
        IN /\ drawn < MaxBlends
           /\ image' = [image EXCEPT ![TheCell] = blend(dst, src)]
           /\ pre' = image
           /\ drawn' = drawn + 1
           /\ op' = [name |-> "blend", color |-> color, dst |-> dst,
                     src |-> src]
           /\ UNCHANGED <<width, height, default_color, guiVars, engineVars>>

NextBlend == Blend
SpecBlend == InitBlend /\ [][NextBlend]_vars

(***************************************************************************)
(* The inputs of the layout: panel trees and screen sizes.                 *)
(***************************************************************************)
MaxDepth == 3

\* Screen sizes in pixels, as <<width, height>>
ScreenSizes == {<<100, 100>>, <<101, 100>>}

\* <<position, dimensions>> of a panel: in pixels and as fractions, inside
\* the parent, past its far edge, larger than it, and of negative width
TransformPairs ==
    <<<<Absolute(0, 0), Relative(F32Lit(3, 10), F32Lit(3, 10))>>,
      <<Relative(F32Lit(2, 10), F32Lit(2, 10)), Absolute(50, 50)>>,
      <<Absolute(0, 0), Absolute(1000, 1000)>>,
      <<Absolute(150, 0), Absolute(50, 50)>>,
      <<Relative(F32Lit(1, 10), F32Lit(1, 10)),
        Relative(F32Lit(8, 10), F32Lit(8, 10))>>,
      <<Relative(F32Lit(1, 2), F32Lit(1, 2)),
        Relative(F32Neg(F32Lit(1, 2)), F32Lit(3, 2))>>>>

\* A leaf panel with the k-th transforms
LeafPanel(active, k, kind) ==
    GUIPanel(active, TransformPairs[k][1], TransformPairs[k][2],
             [kind |-> kind])

\* A panel for each index of ix, each the child of the one before it; every
\* third kind of panel also has an inactive subtree before that child and
\* an image after it
RECURSIVE PanelChain(_)
PanelChain(ix) ==
    LET k == Head(ix)
    IN IF Len(ix) = 1
       THEN LeafPanel(TRUE, k, IF k % 2 = 0 THEN "Text" ELSE "Image")
       ELSE GUIPanel(TRUE, TransformPairs[k][1], TransformPairs[k][2],
                Elements(
                    IF k % 3 = 0
                    THEN <<GUIPanel(FALSE, TransformPairs[5][1],
                                    TransformPairs[5][2],
                                    Elements(<<LeafPanel(TRUE, 5, "Text")>>)),
                           PanelChain(Tail(ix)),
                           LeafPanel(TRUE, 2, "Image")>>
                    ELSE <<PanelChain(Tail(ix))>>))

\* An inactive panel with the k-th transforms and two active descendants
InactiveSubtree(k) ==
    GUIPanel(FALSE, TransformPairs[k][1], TransformPairs[k][2],
             Elements(<<GUIPanel(TRUE, TransformPairs[5][1],
                                 TransformPairs[5][2],
                                 Elements(<<LeafPanel(TRUE, 1, "Image")>>))>>))

\* A leaf panel that starts and ends to the left of its parent
BeforeParent(kind) ==
    GUIPanel(TRUE, Relative(F32Neg(F32Lit(1, 2)), F32Lit(1, 10)),
             Relative(F32Lit(3, 10), F32Lit(3, 10)), [kind |-> kind])

\* The top-level panel lists: a chain, alone, followed by a text panel, or
\* between an inactive subtree and an inactive leaf; and a panel to the left
\* of the screen and one to the left of its parent
PanelLists ==
    {IF ix[1] % 3 = 1 THEN <<PanelChain(ix)>>
     ELSE IF ix[1] % 3 = 2
     THEN <<PanelChain(ix), LeafPanel(TRUE, 5, "Text")>>
     ELSE <<InactiveSubtree(ix[1]), PanelChain(ix),
            LeafPanel(FALSE, 2, "Text")>> :
        ix \in UNION {[1 .. n -> 1 .. Len(TransformPairs)] :
                          n \in 1 .. MaxDepth}}
    \cup {<<BeforeParent("Text")>>,
          <<GUIPanel(TRUE, TransformPairs[2][1], TransformPairs[2][2],
                     Elements(<<BeforeParent("Image")>>))>>}

NoSurface ==
    /\ width = 0 /\ height = 0 /\ default_color = <<0, 0, 0, 0>>
    /\ image = <<>> /\ pre = <<>> /\ drawn = 0

\* GUIRenderer::new
InitLayout ==
    /\ screen_size \in ScreenSizes
    /\ panels \in PanelLists
    /\ buffered_panels = <<>>
    /\ render_pass = <<>>
    /\ data = <<>>
    /\ op = [name |-> "none"]
    /\ NoSurface
    /\ NoEngine

\* GUIRenderer::resize
Resize ==
    /\ \E new_size \in ScreenSizes : screen_size' = new_size
    /\ UNCHANGED <<panels, buffered_panels, render_pass, data, op, surfaceVars,
                   engineVars>>

\* GUIRenderer::update; op records the screen size the panels were
\* buffered against
Update ==
    /\ buffered_panels' = update(panels, screen_size)
    /\ op' = [name |-> "update", screen_size |-> screen_size]
    /\ UNCHANGED <<screen_size, panels, render_pass, data, surfaceVars,
                   engineVars>>

\* GUIRenderer::render
Render ==
    /\ render_pass' = gui_render(buffered_panels)
    /\ op' = [name |-> "render"]
    /\ UNCHANGED <<screen_size, panels, buffered_panels, data, surfaceVars,
                   engineVars>>

NextLayout == Resize \/ Update \/ Render
SpecLayout == InitLayout /\ [][NextLayout]_vars

(***************************************************************************)
(* The input handler.  A PressableState is                                 *)
(* [button, current_state, previous_state], the states being "Pressed"     *)
(* and "Released"; active_keys is a sequence of them.  Keyboard keys and   *)
(* mouse buttons are both buttons and go through the same code.            *)
(***************************************************************************)
\* PressableState::new_keyboard_key, PressableState::new_mouse_button
new_pressable(button) ==
    [button |-> button, current_state |-> "Released",
     previous_state |-> "Released"]

\* PressableState::set_state
set_state(key, new_state) ==
    [key EXCEPT !.previous_state = key.current_state,
                !.current_state = new_state]

\* PressableState::update_state
update_state(key) ==
    IF key.previous_state = "Released" /\ key.current_state = "Pressed"
    THEN [key EXCEPT !.previous_state = "Pressed"]
    ELSE IF key.previous_state = "Pressed" /\ key.current_state = "Released"
    THEN [key EXCEPT !.previous_state = "Released"]
    ELSE key

is_down(key) ==
    key.current_state = "Pressed" /\ key.previous_state = "Released"
is_held(key) ==
    key.current_state = "Pressed" /\ key.previous_state = "Pressed"
is_released(key) ==
    key.current_state = "Released" /\ key.previous_state = "Pressed"
is_up(key) ==
    key.current_state = "Released" /\ key.previous_state = "Released"

\* active_keys.iter().position(|el| el == button): 0 stands for None
key_position(keys, button) ==
    IF \E i \in 1 .. Len(keys) : keys[i].button = button
    THEN CHOOSE i \in 1 .. Len(keys) :
            /\ keys[i].button = button
            /\ \A j \in 1 .. i - 1 : keys[j].button # button
    ELSE 0

\* active_keys.contains(button)
contains(keys, button) == \E i \in 1 .. Len(keys) : keys[i].button = button

\* InputHandler::handle_pressable, from accept_keyboard_input and
\* accept_mouse_button_input
handle_pressable(keys, button, state) ==
    LET index == key_position(keys, button)
    IN IF state = "Pressed" /\ ~contains(keys, button)
       THEN Append(keys, set_state(new_pressable(button), state))
       ELSE IF index # 0
       THEN [keys EXCEPT ![index] = set_state(keys[index], state)]
       ELSE keys

\* InputHandler::is_key_down, is_mouse_button_down
is_key_down(keys, button) ==
    LET index == key_position(keys, button)
    IN index # 0 /\ is_down(keys[index])

\* InputHandler::is_key_held, is_mouse_button_held
is_key_held(keys, button) ==
    LET index == key_position(keys, button)
    IN index # 0 /\ is_held(keys[index])

\* InputHandler::is_key_released, is_mouse_button_released
is_key_released(keys, button) ==
    LET index == key_position(keys, button)
    IN index # 0 /\ is_released(keys[index])

\* InputHandler::is_key_up, is_mouse_button_up
is_key_up(keys, button) == ~contains(keys, button)

is_not_up(key) == ~is_up(key)

\* InputHandler::update_key_state
update_key_state(keys) ==
    SelectSeq([i \in 1 .. Len(keys) |-> update_state(keys[i])], is_not_up)

\* InputHandler::update_input_state, as far as the keys and buttons go
update_input_state(keys) == update_key_state(keys)

(***************************************************************************)
(* Game::run.  A game object is what it does when called:                  *)
(* [exit_on_start, exit_on_update], whether its start and its update call  *)
(* GameState::exit.  A call is [fn, go]: the function and the index of the *)
(* game object, 0 for the engine's own.  The state of the run is a record  *)
(* g of the variables it works on.                                         *)
(***************************************************************************)
engine_call(fn) == [fn |-> fn, go |-> 0]

\* for go in &mut self.game_objects { go.start(..) }
call_start(gos) == [i \in 1 .. Len(gos) |-> [fn |-> "start", go |-> i]]

\* Game::call_end
call_end(gos) == [i \in 1 .. Len(gos) |-> [fn |-> "end", go |-> i]]

\* GraphicsEngine::update, the GUI renderer's part
graphics_update(g) ==
    [g EXCEPT !.buffered_panels = update(g.panels, g.screen_size),
              !.calls = Append(@, engine_call("graphics_update"))]

\* GraphicsEngine::render, the GUI renderer's part
graphics_render(g) ==
    [g EXCEPT !.render_pass = gui_render(g.buffered_panels),
              !.calls = Append(@, engine_call("render"))]

run_ignoring_exit(g) ==
    graphics_update(
        [g EXCEPT !.calls = @ \o call_start(g.game_objects),
                  !.exit = \E i \in 1 .. Len(g.game_objects) :
                              g.game_objects[i].exit_on_start,
                  !.running = "event_loop"])

\* Game::run up to the event loop
run(g) ==
    LET g1 == [g EXCEPT !.calls = @ \o call_start(g.game_objects),
                        !.exit = \E i \in 1 .. Len(g.game_objects) :
                                    g.game_objects[i].exit_on_start]
    IN IF g1.exit
       THEN [g1 EXCEPT !.calls = @ \o call_end(g1.game_objects),
                       !.running = "returned"]
       ELSE graphics_update([g1 EXCEPT !.running = "event_loop"])

\* for go in &mut self.game_objects { go.update(..) }, from the i-th on
RECURSIVE update_game_objects(_, _)
update_game_objects(g, i) ==
    IF i > Len(g.game_objects) THEN g
    ELSE update_game_objects(
             [g EXCEPT !.calls = Append(@, [fn |-> "update", go |-> i]),
                       !.seen_keys = Append(@, g.active_keys),
                       !.exit = @ \/ g.game_objects[i].exit_on_update],
             i + 1)

\* InputHandler::update_input_state from the RedrawRequested handler
input_update(g) ==
    [g EXCEPT !.active_keys = update_input_state(@),
              !.calls = Append(@, engine_call("update_input_state"))]

\* The RedrawRequested handler after the game objects' update
finish_frame(g, render_result) ==
    LET g2 == IF g.exit
              THEN [g EXCEPT !.calls = @ \o call_end(g.game_objects),
                             !.running = "exited"]
              ELSE g
        g3 == graphics_render(graphics_update(input_update(g2)))
    IN [g3 EXCEPT !.running = IF render_result = "OutOfMemory" THEN "exited"
                              ELSE @]

redraw_requested_input_first(g, render_result) ==
    LET g1 == update_game_objects(
                  input_update([g EXCEPT !.seen_keys = <<>>]), 1)
        g2 == IF g1.exit
              THEN [g1 EXCEPT !.calls = @ \o call_end(g1.game_objects),
                              !.running = "exited"]
              ELSE g1
        g3 == graphics_render(graphics_update(g2))
    IN [g3 EXCEPT !.running = IF render_result = "OutOfMemory" THEN "exited"
                              ELSE @]

\* The handler of Event::RedrawRequested
redraw_requested(g, render_result) ==
    finish_frame(update_game_objects([g EXCEPT !.seen_keys = <<>>], 1),
                 render_result)

(***************************************************************************)
(* A run of a game: Game::run, then window events and frames.              *)
(***************************************************************************)
MaxFrames == 2
NumGameObjects == 2

\* A keyboard key and a mouse button
Buttons == {"KeyA", "MouseLeft"}
ElementStates == {"Pressed", "Released"}

\* What surface.get_current_texture gives a frame
RenderResults == {"Ok", "Lost", "OutOfMemory"}

\* The sizes a window is resized to, a minimized one among them
WindowSizes == ScreenSizes \cup {<<0, 100>>}

\* The panels of the game's GUI
GamePanels == <<PanelChain(<<4, 3>>)>>

\* The variables Game::run works on
engine_state ==
    [game_objects |-> game_objects, exit |-> exit, running |-> running,
     calls |-> calls, seen_keys |-> seen_keys, active_keys |-> active_keys,
     panels |-> panels, screen_size |-> screen_size,
     buffered_panels |-> buffered_panels, render_pass |-> render_pass]

\* The variables take the values of g
SetEngineState(g) ==
    /\ exit' = g.exit
    /\ running' = g.running
    /\ calls' = g.calls
    /\ seen_keys' = g.seen_keys
    /\ active_keys' = g.active_keys
    /\ buffered_panels' = g.buffered_panels
    /\ render_pass' = g.render_pass
    /\ UNCHANGED <<game_objects, panels, screen_size>>

\* Game::new and add_game_object for each game object
InitGame ==
    /\ game_objects \in [1 .. NumGameObjects ->
                            [exit_on_start : BOOLEAN,
                             exit_on_update : BOOLEAN]]
    /\ exit = FALSE /\ running = "new" /\ calls = <<>> /\ frames = 0
    /\ seen_keys = <<>>
    /\ screen_size \in ScreenSizes
    /\ panels = GamePanels
    /\ buffered_panels = <<>> /\ render_pass = <<>> /\ data = <<>>
    /\ op = [name |-> "none"]
    /\ NoInput /\ NoPrefab /\ NoSurface

\* Game::run up to the event loop
Run ==
    /\ running = "new"
    /\ SetEngineState(run(engine_state))
    /\ op' = [name |-> "run"]
    /\ UNCHANGED <<events, frame_start_keys, frames, data, surfaceVars,
                   prefabVars>>

\* A WindowEvent::KeyboardInput or MouseInput: InputHandler::accept_input
AcceptInput ==
    /\ running = "event_loop"
    /\ \E button \in Buttons, state \in ElementStates :
          /\ active_keys' = handle_pressable(active_keys, button, state)
          /\ events' = events \cup {<<button, state>>}
          /\ op' = [name |-> "accept_input"]
    /\ UNCHANGED <<frame_start_keys, gameVars, guiVars, surfaceVars,
                   prefabVars>>

\* WindowEvent::Resized or ScaleFactorChanged: GraphicsEngine::resize
Resized ==
    /\ running = "event_loop"
    /\ \E new_size \in WindowSizes :
          /\ screen_size' = IF new_size[1] > 0 /\ new_size[2] > 0
                            THEN new_size ELSE screen_size
          /\ op' = [name |-> "resized"]
    /\ UNCHANGED <<panels, buffered_panels, render_pass, data, inputVars,
                   gameVars, surfaceVars, prefabVars>>

\* WindowEvent::CloseRequested
CloseRequested ==
    /\ running = "event_loop"
    /\ calls' = calls \o call_end(game_objects)
    /\ running' = "exited"
    /\ op' = [name |-> "close_requested"]
    /\ UNCHANGED <<game_objects, exit, frames, seen_keys, inputVars, guiVars,
                   surfaceVars, prefabVars>>

\* Event::RedrawRequested: one frame.  op keeps the events the frame found,
\* the keys the frame before it left and the keys and the number of calls
\* it began with
Frame ==
    /\ running = "event_loop"
    /\ frames < MaxFrames
    /\ \E render_result \in RenderResults :
          /\ SetEngineState(redraw_requested(engine_state, render_result))
          /\ op' = [name |-> "frame", events |-> events,
                    frame_start_keys |-> frame_start_keys,
                    active_keys |-> active_keys, calls |-> Len(calls)]
    /\ frames' = frames + 1
    /\ events' = {}
    /\ frame_start_keys' = active_keys'
    /\ UNCHANGED <<data, surfaceVars, prefabVars>>

NextGame == Run \/ AcceptInput \/ Resized \/ CloseRequested \/ Frame
SpecGame == InitGame /\ [][NextGame]_vars

(***************************************************************************)
(* The instances of one prefab.  Prefab.transforms is a function from ids  *)
(* to transforms, a transform being the position it was given; a           *)
(* PrefabInstance handle is [hash, position].                              *)
(***************************************************************************)
\* HashMap::insert: the value of an existing key is replaced
insert(map, key, value) ==
    [k \in DOMAIN map \cup {key} |-> IF k = key THEN value ELSE map[k]]

\* HashMap::remove
remove(map, key) == [k \in DOMAIN map \ {key} |-> map[k]]

\* HashMap::len
len(map) == Cardinality(DOMAIN map)

\* Prefab::add_instance: the transforms after it and the handle it returns
add_instance(prefab, position) ==
    LET inserted == insert(prefab, len(prefab), position)
    IN [transforms |-> inserted,
        instance |-> [hash |-> len(inserted) - 1, position |-> position]]

\* Prefab::update_instance
update_instance(prefab, instance) ==
    IF instance.hash \in DOMAIN prefab
    THEN [prefab EXCEPT ![instance.hash] = instance.position]
    ELSE prefab

\* Prefab::remove_instance
remove_instance(prefab, instance) == remove(prefab, instance.hash)

MaxInstances == 3
InstancePositions == {10, 20, 30}

\* Renderer3D::add_as_prefab: a prefab without instances
InitPrefab ==
    /\ transforms = <<>> /\ instances = <<>>
    /\ op = [name |-> "none"]
    /\ NoInput /\ NoGame /\ NoGui /\ NoSurface

\* Renderer3D::instantiate_prefab with the name of the prefab; the game
\* keeps the handle.  op keeps the transforms and the handles before it
InstantiatePrefab ==
    /\ Len(instances) < MaxInstances
    /\ \E position \in InstancePositions :
          LET added == add_instance(transforms, position)
          IN /\ transforms' = added.transforms
             /\ instances' = Append(instances, added.instance)
             /\ op' = [name |-> "instantiate_prefab",
                       instance |-> added.instance,
                       transforms |-> transforms, instances |-> instances]
    /\ UNCHANGED <<inputVars, gameVars, guiVars, surfaceVars>>

\* Renderer3D::update_prefab_instance with a handle the game keeps, moved
UpdatePrefabInstance ==
    /\ \E i \in 1 .. Len(instances), position \in InstancePositions :
          LET instance == [instances[i] EXCEPT !.position = position]
          IN /\ transforms' = update_instance(transforms, instance)
             /\ instances' = [instances EXCEPT ![i] = instance]
             /\ op' = [name |-> "update_prefab_instance",
                       instance |-> instance]
    /\ UNCHANGED <<inputVars, gameVars, guiVars, surfaceVars>>

\* Renderer3D::delete_prefab_instance with a handle the game keeps
DeletePrefabInstance ==
    /\ \E i \in 1 .. Len(instances) :
          /\ transforms' = remove_instance(transforms, instances[i])
          /\ instances' = [j \in 1 .. Len(instances) - 1 |->
                              IF j < i THEN instances[j]
                              ELSE instances[j + 1]]
          /\ op' = [name |-> "delete_prefab_instance",
                    instance |-> instances[i]]
    /\ UNCHANGED <<inputVars, gameVars, guiVars, surfaceVars>>

NextPrefab ==
    InstantiatePrefab \/ UpdatePrefabInstance \/ DeletePrefabInstance
SpecPrefab == InitPrefab /\ [][NextPrefab]_vars

(***************************************************************************)
(* Calls of the text rasterizer.                                           *)
(***************************************************************************)
MaxBox == 2

\* wgpu::Color after `as f32`
TextColors == {<<F32Lit(1, 1), F32Lit(1, 2), F32Lit(0, 1), F32Lit(1, 1)>>}

\* Calls back inside the box, past its end and from glyphs whose bounds
\* start left of or above it
CallBacks ==
    {[min_x |-> m[1], min_y |-> m[2], x |-> at[1], y |-> at[2], c |-> c] :
        m \in {<<0, 0>>, <<-1, 1>>}, at \in {<<0, 0>>, <<1, 1>>, <<3, 0>>},
        c \in {F32Lit(1, 1), F32Lit(1, 2)}}

GlyphDraws ==
    {<<>>} \cup {<<a>> : a \in CallBacks}
           \cup {<<a, b>> : a \in {cb \in CallBacks : cb.min_x = 0},
                            b \in {cb \in CallBacks : cb.min_x # 0}}

InitText == NoSurface /\ NoGui /\ NoEngine /\ op = [name |-> "none"]

\* GUIPanelContent::Text is buffered: the rasterizer is called with the
\* panel's box.  The call depends on nothing a call before it left, so one
\* call is followed from the start.
GetRasterizedDataFromText ==
    \E font \in {"Default", "Custom"}, parses \in BOOLEAN,
       px_scale \in {"Some", "None"}, w \in 0 .. MaxBox, h \in 0 .. MaxBox,
       color \in TextColors, draws \in GlyphDraws :
        /\ op.name = "none"
        /\ font = "Default" => parses
        /\ data' = get_rasterized_data_from_text(
                       [font |-> font, color |-> color], w, h, parses,
                       px_scale, draws)
        /\ op' = [name |-> "get_rasterized_data_from_text", font |-> font,
                  parses |-> parses, px_scale |-> px_scale, width |-> w,
                  height |-> h, draws |-> draws]
        /\ UNCHANGED <<surfaceVars, screen_size, panels, buffered_panels,
                       render_pass, engineVars>>

NextText == GetRasterizedDataFromText
SpecText == InitText /\ [][NextText]_vars

(***************************************************************************)
(* Properties of the surface operations.  pre is the image the last call   *)
(* found, image the one it left, op the call and its arguments.            *)
(***************************************************************************)
\* The cells the last call changed
Changed == {c \in DOMAIN image : image[c] # pre[c]}

\* The positions of a sequence of positions
Positions(seq) == {seq[i] : i \in 1 .. Len(seq)}

InBounds(position) ==
    /\ 0 <= position.x /\ position.x < width
    /\ 0 <= position.y /\ position.y < height

\* The surface was all of its clear color and the call's color is another
\* one, so that the cells the call colors are the cells it changed
OnClearedSurface ==
    /\ pre = clear(pre)
    /\ default_color # from_color_to_rgba(op.color)

\* The filled triangle (0,0), (4,0), (0,4)
IsHalfSquareTriangle ==
    /\ op.name = "draw_triangle"
    /\ op.fill
    /\ <<op.p0, op.p1, op.p2>> = <<Point(0, 0), Point(4, 0), Point(0, 4)>>
    /\ width >= 5 /\ height >= 5
    /\ OnClearedSurface

\* C1: draw_triangle((0,0),(4,0),(0,4), color, fill=true) on a cleared
\* surface of at least 5x5 colors exactly the 15 cells with x >= 0, y >= 0,
\* x + y <= 4 (rows y = 0..4 with 5, 4, 3, 2, 1 cells) and no other cell.
C1_TriangleColorsFifteenCells ==
    IsHalfSquareTriangle =>
        Changed = {c \in DOMAIN image : c[1] + c[2] <= 4}

\* The rule of blend as the specification writes it, on each of r, g, b, a:
\* out.c = src.c + dst.c * (255 - src.a) / 255
BlendRule(dst, src) ==
    [i \in 1 .. 4 |-> src[i] + (dst[i] * (255 - src[4])) \div 255]

\* The pixel of the sprite of the last call that lands on cell c, if any
SpritePixelAt(c) ==
    LET at == {p \in DOMAIN op.sprite.pixels :
                  /\ ~I32AddOverflows(p[1], op.position.x)
                  /\ ~I32AddOverflows(p[2], op.position.y)
                  /\ <<p[1] + op.position.x, p[2] + op.position.y>> = c}
    IN IF at = {} THEN <<>> ELSE <<op.sprite.pixels[CHOOSE p \in at : TRUE]>>

\* C2: draw_sprite composites every source pixel as non-premultiplied: it
\* premultiplies it and the destination cell becomes
\* blend(current, premultiply(source pixel)), with
\* out.c = src.c + dst.c*(255-src.a)/255 on each of r, g, b, a.
C2_SpriteBlendsPremultipliedPixels ==
    op.name = "draw_sprite" =>
        \A c \in DOMAIN image :
            image[c] = IF SpritePixelAt(c) = <<>> THEN pre[c]
                       ELSE BlendRule(pre[c], premultiply(SpritePixelAt(c)[1]))

C4_OutOfBoundsPointIsNoOp ==
    (op.name \in {"draw_color_point", "draw_rgba_point"}
        /\ ~InBounds(op.position)) => image = pre

C4_Witness ==
    /\ op.name = "draw_color_point"
    /\ op.position = Point(-1, 0)
    /\ op.color = RED
    /\ \A c \in DOMAIN pre : pre[c] # from_color_to_rgba(RED)
    /\ image = pre

\* C5: for all endpoints a and b, in or out of bounds and of any slope,
\* draw_line(a,b,c) and draw_line(b,a,c) paint the same set of positions
\* and leave the same image when started from the same surface.
C5_LineIsSymmetric ==
    op.name = "draw_line" =>
        /\ Positions(line_positions(op.start, op.end))
             = Positions(line_positions(op.end, op.start))
        /\ image = draw_line(pre, op.end, op.start, op.color)

C5_Witness ==
    /\ op.name = "draw_line"
    /\ op.start = Point(3, 2)
    /\ op.end = Point(0, 1)
    /\ Changed = {<<0, 1>>, <<1, 1>>, <<2, 2>>, <<3, 2>>}

\* C6: for every in-bounds point a, draw_line(a,a,c) colors the single
\* pixel a and changes no other cell.
C6_PointLineColorsOnePixel ==
    (op.name = "draw_line" /\ op.start = op.end /\ InBounds(op.start)) =>
        LET a == <<op.start.x, op.start.y>>
        IN /\ line_positions(op.start, op.end) = <<op.start>>
           /\ image[a] = draw_color_point(pre, op.start, op.color)[a]
           /\ \A c \in DOMAIN image \ {a} : image[c] = pre[c]

C6_Witness ==
    /\ op.name = "draw_line"
    /\ op.start = Point(2, 1)
    /\ op.end = Point(2, 1)
    /\ Changed = {<<2, 1>>}

\* The circle of center (10,10) and radius 5 on a surface that holds all
\* of its disc and has no cell of the circle's color
IsTenTenFiveCircle ==
    /\ op.name = "draw_circle"
    /\ op.center = Point(10, 10)
    /\ op.radius = 5
    /\ width >= 16 /\ height >= 16
    /\ \A c \in DOMAIN pre : pre[c] # from_color_to_rgba(op.color)

\* The cells at a rounded distance of at most 5 from (10,10)
Disc == {c \in DOMAIN image : (c[1] - 10) * (c[1] - 10)
                                + (c[2] - 10) * (c[2] - 10) <= 30}

\* C7: draw_circle(center=(10,10), radius=5, fill=true) colors exactly the
\* cells with (x-10)^2 + (y-10)^2 <= 30, and with fill=false a strict
\* subset of them.
C7_CircleColorsDisc ==
    IsTenTenFiveCircle =>
        IF op.fill THEN Changed = Disc
        ELSE Changed \subseteq Disc /\ Changed # Disc /\ Changed # {}

C7_Witness ==
    /\ IsTenTenFiveCircle
    /\ op.fill
    /\ <<10, 15>> \in Changed /\ <<5, 10>> \in Changed
    /\ <<14, 13>> \in Changed
    /\ <<14, 14>> \notin Changed

(***************************************************************************)
(* Properties of the layout.  After update, buffered_panels holds the      *)
(* resolved tree of panels against op.screen_size.                         *)
(***************************************************************************)
Rect(l, t, r, b) == [left |-> l, top |-> t, right |-> r, bottom |-> b]

\* The rect of the screen the last update resolved against
Viewport ==
    Rect(F32FromInt(0), F32FromInt(0), F32FromInt(op.screen_size[1]),
         F32FromInt(op.screen_size[2]))

ActivePanels(ps) == SelectSeq(ps, LAMBDA p : p.active)

\* Every resolved node of the nodes ns that the panels ps resolved to, with
\* its panel and the rect of its parent
RECURSIVE Resolved(_, _, _)
Resolved(ps, ns, parent) ==
    UNION {{[panel |-> ActivePanels(ps)[i], node |-> ns[i],
             parent |-> parent]}
           \cup (IF ActivePanels(ps)[i].content.kind = "Elements"
                 THEN Resolved(ActivePanels(ps)[i].content.children,
                               ns[i].children,
                               Rect(ns[i].left, ns[i].top, ns[i].right,
                                    ns[i].bottom))
                 ELSE {}) : i \in 1 .. Len(ns)}

AllResolved ==
    IF op.name = "update" THEN Resolved(panels, buffered_panels, Viewport)
    ELSE {}

\* v lies between a and b, whichever of the two is the smaller
Between(v, a, b) ==
    \/ F32Le(a, v) /\ F32Le(v, b)
    \/ F32Le(b, v) /\ F32Le(v, a)

\* C8: every resolved node's rect is contained in its parent's resolved
\* rect, at any depth and for any fractions: its left and right lie between
\* the parent's left and right, its top and bottom between the parent's top
\* and bottom, the parent of a top-level panel being the screen.
C8_NodeRectInsideParentRect ==
    \A r \in AllResolved :
        /\ Between(r.node.left, r.parent.left, r.parent.right)
        /\ Between(r.node.right, r.parent.left, r.parent.right)
        /\ Between(r.node.top, r.parent.top, r.parent.bottom)
        /\ Between(r.node.bottom, r.parent.top, r.parent.bottom)

\* What buffer is given for a node's parent: its anchor and its dimensions
ParentAnchor(r) == <<r.parent.left, r.parent.top>>
ParentDims(r) ==
    <<F32Sub(r.parent.right, r.parent.left),
      F32Sub(r.parent.bottom, r.parent.top)>>

\* The size a transform stands for on one axis (1 for x, 2 for y)
SizeOf(transform, dims, axis) ==
    IF transform.kind = "Absolute"
    THEN F32FromInt(IF axis = 1 THEN transform.x ELSE transform.y)
    ELSE F32Mul(dims[axis], IF axis = 1 THEN transform.percentage_x
                            ELSE transform.percentage_y)

\* The edges of a node before clamping: the anchor plus the position, and
\* that plus the size
NearEdge(r, axis) ==
    F32Add(ParentAnchor(r)[axis],
           SizeOf(r.panel.position, ParentDims(r), axis))
FarEdge(r, axis) ==
    F32Add(NearEdge(r, axis), SizeOf(r.panel.dimensions, ParentDims(r), axis))

\* The interval [parent_anchor, parent_anchor + parent_dims] of an axis
Lo(r, axis) == ParentAnchor(r)[axis]
Hi(r, axis) == F32Add(ParentAnchor(r)[axis], ParentDims(r)[axis])

\* v moved to the nearest point of [lo, hi]
ClampInto(v, lo, hi) == IF F32Lt(v, lo) THEN lo ELSE IF F32Lt(hi, v) THEN hi ELSE v

IsClampExample(r) ==
    /\ r.panel.position = Absolute(150, 0)
    /\ r.panel.dimensions = Absolute(50, 50)
    /\ r.parent = Rect(F32FromInt(0), F32FromInt(0), F32FromInt(100),
                       F32FromInt(100))

\* C9: each of left, top, right, bottom is clamped on its own into
\* [parent_anchor, parent_anchor + parent_dims] on its axis (for a parent
\* of non-negative dimensions), so position Absolute(150,0) with dimensions
\* Absolute(50,50) against anchor (0,0) and dims (100,100) gives the
\* zero-width rect (100,0)-(100,50).
C9_EdgesClampedIndependently ==
    \A r \in AllResolved :
        /\ \A axis \in {1, 2} :
              F32Le(Lo(r, axis), Hi(r, axis)) =>
                LET near == IF axis = 1 THEN r.node.left ELSE r.node.top
                    far  == IF axis = 1 THEN r.node.right ELSE r.node.bottom
                IN /\ near = ClampInto(NearEdge(r, axis), Lo(r, axis),
                                       Hi(r, axis))
                   /\ far = ClampInto(FarEdge(r, axis), Lo(r, axis),
                                      Hi(r, axis))
        /\ IsClampExample(r) =>
              r.node = [r.node EXCEPT !.left = F32FromInt(100),
                                      !.top = F32FromInt(0),
                                      !.right = F32FromInt(100),
                                      !.bottom = F32FromInt(50)]

C9_Witness ==
    \E r \in AllResolved :
        /\ IsClampExample(r)
        /\ r.node.left = r.node.right
        /\ r.node.left = F32FromInt(100)
        /\ F32Lt(F32FromInt(100), NearEdge(r, 1))

Unclamped(r) ==
    \A axis \in {1, 2} :
        /\ Between(NearEdge(r, axis), Lo(r, axis), Hi(r, axis))
        /\ Between(FarEdge(r, axis), Lo(r, axis), Hi(r, axis))
        /\ F32Le(Lo(r, axis), Hi(r, axis))

IsRelativeExample(r) ==
    /\ r.panel.position = Relative(F32Lit(1, 10), F32Lit(1, 10))
    /\ r.panel.dimensions = Relative(F32Lit(8, 10), F32Lit(8, 10))
    /\ r.parent = Rect(F32FromInt(0), F32FromInt(0), F32FromInt(100),
                       F32FromInt(100))

\* C10: when no clamping applies, (left, top) is the parent's anchor plus
\* (x, y) for Absolute(x,y) and plus parent_dims*(fx,fy) for
\* Relative(fx,fy), and (right, bottom) is (left, top) plus the size
\* computed the same way from dimensions; so position Relative(0.1,0.1)
\* with dimensions Relative(0.8,0.8) against anchor (0,0) and dims
\* (100,100) gives the rect (10,10)-(90,90).
C10_UnclampedRectIsPositionPlusSize ==
    \A r \in AllResolved :
        /\ Unclamped(r) =>
              /\ r.node.left = NearEdge(r, 1)
              /\ r.node.top = NearEdge(r, 2)
              /\ r.node.right = F32Add(r.node.left,
                     SizeOf(r.panel.dimensions, ParentDims(r), 1))
              /\ r.node.bottom = F32Add(r.node.top,
                     SizeOf(r.panel.dimensions, ParentDims(r), 2))
        /\ IsRelativeExample(r) =>
              /\ Unclamped(r)
              /\ r.node.left = F32FromInt(10)
              /\ r.node.top = F32FromInt(10)
              /\ r.node.right = F32FromInt(90)
              /\ r.node.bottom = F32FromInt(90)

C10_Witness ==
    \E r \in AllResolved :
        /\ IsRelativeExample(r)
        /\ r.node.right = F32FromInt(90)
        /\ r.node.texture.from = "color"
        /\ r.node.children # <<>>

\* The number of nodes of a sequence of resolved trees
RECURSIVE NodeCount(_)
NodeCount(ns) ==
    IF ns = <<>> THEN 0
    ELSE 1 + NodeCount(Head(ns).children) + NodeCount(Tail(ns))

\* The number of panels of a sequence of panel trees that are active and
\* have only active ancestors
RECURSIVE LivePanelCount(_)
LivePanelCount(ps) ==
    IF ps = <<>> THEN 0
    ELSE (IF ~Head(ps).active THEN 0
          ELSE 1 + (IF Head(ps).content.kind = "Elements"
                    THEN LivePanelCount(Head(ps).content.children)
                    ELSE 0))
         + LivePanelCount(Tail(ps))

\* The number of panels of a sequence of panel trees
RECURSIVE PanelCount(_)
PanelCount(ps) ==
    IF ps = <<>> THEN 0
    ELSE 1 + (IF Head(ps).content.kind = "Elements"
              THEN PanelCount(Head(ps).content.children) ELSE 0)
         + PanelCount(Tail(ps))

\* C11: a panel with active=false resolves to no node and none of its
\* descendants is resolved, whatever their own active flags: the top-level
\* resolved list has one node for each active top-level panel, and the
\* resolved trees have one node for each panel that is active and has only
\* active ancestors.
C11_InactiveSubtreeResolvesToNothing ==
    op.name = "update" =>
        /\ Len(buffered_panels) = Len(ActivePanels(panels))
        /\ NodeCount(buffered_panels) = LivePanelCount(panels)

C11_Witness ==
    /\ op.name = "update"
    /\ ~panels[1].active
    /\ panels[1].content.children[1].active
    /\ Len(buffered_panels) = 1
    /\ NodeCount(buffered_panels) >= 2
    /\ PanelCount(panels) >= NodeCount(buffered_panels) + 5

\* The nodes ns are the resolved nodes of the active panels of ps, in the
\* order of ps, and so down the trees; a node of an image or a text has no
\* children
RECURSIVE ChildrenInOrder(_, _, _, _)
ChildrenInOrder(ps, ns, anchor, dims) ==
    /\ Len(ns) = Len(ActivePanels(ps))
    /\ \A i \in 1 .. Len(ns) :
          LET child == ActivePanels(ps)[i]
          IN /\ <<ns[i]>> = buffer(child, anchor, dims)
             /\ IF child.content.kind = "Elements"
                THEN ChildrenInOrder(child.content.children, ns[i].children,
                         <<ns[i].left, ns[i].top>>,
                         <<F32Sub(ns[i].right, ns[i].left),
                           F32Sub(ns[i].bottom, ns[i].top)>>)
                ELSE ns[i].children = <<>>

\* C12: resolving an Elements panel yields a children list that is exactly
\* the resolved nodes of its active children, in the order of the input
\* list (its length is the number of active children); Image and Text
\* panels resolve with an empty children list.
C12_ChildrenAreActiveChildrenInOrder ==
    op.name = "update" =>
        ChildrenInOrder(panels, buffered_panels,
                        <<Viewport.left, Viewport.top>>,
                        <<Viewport.right, Viewport.bottom>>)

C12_Witness ==
    /\ op.name = "update"
    /\ Len(panels) = 3
    /\ Len(buffered_panels) = 1
    /\ panels[2].content.kind = "Elements"
    /\ Len(panels[2].content.children) = 3
    /\ Len(buffered_panels[1].children) = 2
    /\ buffered_panels[1].children[1] # buffered_panels[1].children[2]
    /\ buffered_panels[1].children[2].texture.from = "image"
    /\ buffered_panels[1].children[2].children = <<>>

\* The paths into the trees ns: a path is the index of a tree, then of one
\* of its children, and so on
RECURSIVE Paths(_)
Paths(ns) ==
    UNION {{<<i>>} \cup {<<i>> \o p : p \in Paths(ns[i].children)} :
              i \in 1 .. Len(ns)}

\* The node of the trees ns at a path
RECURSIVE NodeAt(_, _)
NodeAt(ns, path) ==
    IF Len(path) = 1 THEN ns[path[1]]
    ELSE NodeAt(ns[path[1]].children, Tail(path))

\* p is an ancestor of q
IsAncestor(p, q) == Len(p) < Len(q) /\ SubSeq(q, 1, Len(p)) = p

\* p is in, or is the root of, a subtree that is listed before the one of q
\* at the place where the two paths part
IsEarlierSibling(p, q) ==
    \E i \in 1 .. Min(Len(p), Len(q)) :
        /\ SubSeq(p, 1, i - 1) = SubSeq(q, 1, i - 1)
        /\ p[i] < q[i]

\* The place of the node at a path in tree pre-order
PreOrderRank(ns, path) ==
    1 + Cardinality({q \in Paths(ns) :
                        IsAncestor(q, path) \/ IsEarlierSibling(q, path)})

\* C13: the display pass issues its draw calls in tree pre-order of the
\* resolved tree: a node's quad before those of its descendants, sibling
\* subtrees one after another in list order, one draw call for each node.
C13_RenderIsPreOrder ==
    op.name = "render" =>
        /\ Len(render_pass) = Cardinality(Paths(buffered_panels))
        /\ \A p \in Paths(buffered_panels) :
              render_pass[PreOrderRank(buffered_panels, p)]
                  = draw_indexed(NodeAt(buffered_panels, p))

C13_Witness ==
    /\ op.name = "render"
    /\ Len(render_pass) = 5
    /\ Len(buffered_panels) = 1
    /\ Len(buffered_panels[1].children) = 2
    /\ Len(buffered_panels[1].children[1].children) = 2
    /\ render_pass[1] = draw_indexed(buffered_panels[1])
    /\ render_pass[3] = draw_indexed(buffered_panels[1].children[1].children[1])
    /\ render_pass[5] = draw_indexed(buffered_panels[1].children[2])
    /\ \A i \in 1 .. 5, j \in 1 .. 5 : i # j => render_pass[i] # render_pass[j]

(***************************************************************************)
(* Properties of the surface over sequences of calls.                      *)
(***************************************************************************)
\* C14: after any sequence of drawing operations, clear() makes every cell
\* equal to the surface's clear color, which is the one construction
\* stored (that of the color given to new, transparent black for a surface
\* built from an image) and never changes, and it leaves width and height
\* unchanged.
C14_ClearFillsWithClearColor ==
    /\ op.name = "new" => default_color = from_color_to_rgba(op.color)
    /\ op.name = "from_image" => default_color = <<0, 0, 0, 0>>
    /\ [][/\ default_color' = default_color
          /\ op'.name = "clear" =>
                /\ width' = width /\ height' = height
                /\ DOMAIN image' = Cells(width, height)
                /\ \A c \in Cells(width, height) :
                      image'[c] = default_color']_vars

C14_Witness ==
    /\ op.name = "clear"
    /\ op.drawn = 3
    /\ default_color = <<5, 100, 128, 128>>
    /\ \A c \in Cells(2, 2) : image[c] = <<5, 100, 128, 128>>

\* C15: the surface always holds width * height cells, and after
\* resize(new_w, new_h) it is new_w by new_h, holds new_w * new_h cells, and
\* every cell equals the clear color, whatever was drawn before the resize.
C15_ResizeRefillsWithClearColor ==
    /\ DOMAIN image = Cells(width, height)
    /\ Cardinality(DOMAIN image) = width * height
    /\ (op.name = "resize" /\ op.resize_mode # "KeepAspectRatio") =>
          /\ width = op.new_w /\ height = op.new_h
          /\ Cardinality(DOMAIN image) = op.new_w * op.new_h
          /\ \A c \in Cells(op.new_w, op.new_h) : image[c] = default_color

C15_Witness ==
    /\ op.name = "resize" /\ op.resize_mode = "Resize"
    /\ op.drawn = 2
    /\ width = 3 /\ height = 2
    /\ \E c \in DOMAIN pre : pre[c] # default_color
    /\ \A c \in Cells(3, 2) : image[c] = <<5, 100, 128, 128>>

\* C16: the surface built by from_image(img) has img's width and height,
\* and reading back any cell returns img's pixel there exactly, for every
\* fully-opaque pixel of img.
C16_FromImageRoundTrip ==
    op.name = "from_image" =>
        /\ width = op.img.width /\ height = op.img.height
        /\ DOMAIN image = Cells(op.img.width, op.img.height)
        /\ \A c \in Cells(op.img.width, op.img.height) :
              op.img.pixels[c][4] = 255 => image[c] = op.img.pixels[c]

C16_Witness ==
    /\ op.name = "from_image"
    /\ width = 4 /\ height = 3
    /\ op.img.pixels[<<2, 0>>] = <<40, 80, 255, 255>>
    /\ image[<<2, 0>>] = <<40, 80, 255, 255>>
    /\ op.img.pixels[<<1, 0>>] # op.img.pixels[<<2, 0>>]

BlendSum(dst, src, i) == src[i] + ((dst[i] * (255 - src[4])) \div 255)

\* C18: for every color c and every dst, blend(dst, premultiply(c)) computes
\* at most 255 on each of r, g, b, a, so the 8-bit addition neither overflows
\* nor wraps and the cell holds the sums themselves, after any sequence of
\* blends onto the cell.
C18_BlendSumFitsInU8 ==
    op.name = "blend" =>
        \A i \in 1 .. 4 :
            /\ op.src = premultiply(op.color)
            /\ BlendSum(op.dst, op.src, i) <= U8Max
            /\ image[TheCell][i] = BlendSum(op.dst, op.src, i)
            /\ image[TheCell][i] \in 0 .. U8Max

C18_Witness ==
    /\ op.name = "blend"
    /\ drawn = 2
    /\ op.color = <<255, 255, 255, 127>>
    /\ op.src = <<127, 127, 127, 127>>
    /\ op.dst = <<255, 255, 255, 255>>
    /\ image[TheCell] = <<255, 255, 255, 255>>

(***************************************************************************)
(* Properties of draw_sprite at the edges.                                 *)
(***************************************************************************)
\* Each cell holds what draw_rgba_point makes of it with the sprite's pixel
\* that lands on it, and what it held before if none does
SpriteCompositedPerPixel ==
    \A c \in DOMAIN image :
        image[c] = IF SpritePixelAt(c) = <<>> THEN pre[c]
                   ELSE draw_rgba_point(pre, Point(c[1], c[2]),
                                        SpritePixelAt(c)[1])[c]

\* C19: for a sprite placed at any position, draw_sprite composites exactly
\* the source pixels whose destination lies inside the surface, leaves every
\* other cell unchanged, and the call does not fail.
C19_SpriteSkipsOutOfBoundsPixels ==
    op.name = "draw_sprite" => (~op.panicked /\ SpriteCompositedPerPixel)

(***************************************************************************)
(* Properties of the text rasterizer.                                      *)
(***************************************************************************)
\* The call failed: the custom font's data did not parse or the point
\* scale could not be converted
RasterizationFailed ==
    \/ op.font = "Custom" /\ ~op.parses
    \/ op.px_scale = "None"

\* C20: the text rasterizer returns a buffer of exactly
\* box_width * box_height * 4 bytes for every box size, 0 included, and
\* every outcome, and when rasterization fails every byte of it is zero.
C20_TextBufferHasBoxSize ==
    op.name = "get_rasterized_data_from_text" =>
        /\ Len(data) = op.width * op.height * 4
        /\ \A i \in 1 .. Len(data) : data[i] \in 0 .. U8Max
        /\ RasterizationFailed => \A i \in 1 .. Len(data) : data[i] = 0

C20_Witness ==
    /\ op.name = "get_rasterized_data_from_text"
    /\ op.font = "Custom" /\ ~op.parses /\ op.px_scale = "Some"
    /\ op.width = 2 /\ op.height = 2
    /\ Len(op.draws) = 2
    /\ Len(data) = 16
    /\ \A i \in 1 .. 16 : data[i] = 0

(***************************************************************************)
(* Properties of the triangle fill.                                        *)
(***************************************************************************)
\* C21: in fill mode, for any three points, every call of the bottom-flat
\* and top-flat fills computes its two inverse slopes with a denominator
\* that is not zero.
C21_NoZeroSlopeDenominator ==
    (op.name = "draw_triangle" /\ op.fill) =>
        LET fills == triangle_fill_calls(op.p0, op.p1, op.p2)
        IN \A i \in 1 .. Len(fills), j \in 1 .. 2 :
              inv_slope_denominators(fills[i])[j] # 0

\* The place of the i-th point of a sequence in its stable sort by y: after
\* the points with a smaller y and the earlier points with the same y
StableRank(points, i) ==
    1 + Cardinality({j \in DOMAIN points :
                        \/ points[j].y < points[i].y
                        \/ points[j].y = points[i].y /\ j < i})

StableSortByY(points) ==
    [r \in DOMAIN points |->
        points[CHOOSE i \in DOMAIN points : StableRank(points, i) = r]]

\* C22: for every triple of points the vertex sort of the triangle fill
\* returns a permutation of them in ascending order of y in which points
\* of equal y keep their input order.
C22_VertexSortIsStable ==
    (op.name = "draw_triangle" /\ op.fill) =>
        LET q == sorted_vertices(op.p0, op.p1, op.p2)
        IN /\ q[1].y <= q[2].y /\ q[2].y <= q[3].y
           /\ q = StableSortByY(<<op.p0, op.p1, op.p2>>)

C22_Witness ==
    /\ op.name = "draw_triangle" /\ op.fill
    /\ op.p0.y = op.p1.y /\ op.p1.y = op.p2.y
    /\ op.p0.x > op.p1.x /\ op.p1.x > op.p2.x
    /\ sorted_vertices(op.p0, op.p1, op.p2) = <<op.p0, op.p1, op.p2>>
    /\ image # pre

(***************************************************************************)
(* The input handler over the frames of a game.                            *)
(***************************************************************************)
\* The frame just drawn found button b absent from the active keys the
\* frame before it left, and Pressed events for b but no Released one
PressedThisFrame(b) ==
    /\ op.name = "frame"
    /\ ~contains(op.frame_start_keys, b)
    /\ <<b, "Pressed">> \in op.events
    /\ <<b, "Released">> \notin op.events

\* C23: when a key or button is not among the active keys at the start of
\* a frame and one or more Pressed events for it, and no Released event,
\* arrive before the frame's update, every update of that frame finds
\* is_key_down true for it, and after the frame's update_input_state
\* is_key_down is false and is_key_held is true.
C23_DownOnFirstFrameOfPress ==
    \A b \in Buttons :
        PressedThisFrame(b) =>
            /\ \A i \in 1 .. Len(seen_keys) : is_key_down(seen_keys[i], b)
            /\ ~is_key_down(active_keys, b)
            /\ is_key_held(active_keys, b)

\* The frame just drawn found button b held by the frame before it, and
\* Released events for b but no Pressed one
ReleasedThisFrame(b) ==
    /\ op.name = "frame"
    /\ is_key_held(op.frame_start_keys, b)
    /\ <<b, "Released">> \in op.events
    /\ <<b, "Pressed">> \notin op.events

\* C24: when a key or button is held at the start of a frame and a
\* Released event for it arrives before the frame's update, every update of
\* that frame finds is_key_released true for it, and after the frame's
\* update_input_state it is no longer among the active keys:
\* is_key_released is false and is_key_up is true.
C24_ReleasedOnFirstFrameOfRelease ==
    \A b \in Buttons :
        ReleasedThisFrame(b) =>
            /\ \A i \in 1 .. Len(seen_keys) :
                  is_key_released(seen_keys[i], b)
            /\ ~contains(active_keys, b)
            /\ ~is_key_released(active_keys, b)
            /\ is_key_up(active_keys, b)

\* The public queries of the input handler that are true of button b
TrueQueries(keys, b) ==
    {q \in {"down", "held", "released", "up"} :
        \/ q = "down" /\ is_key_down(keys, b)
        \/ q = "held" /\ is_key_held(keys, b)
        \/ q = "released" /\ is_key_released(keys, b)
        \/ q = "up" /\ is_key_up(keys, b)}

\* C28: in every state reached by Pressed and Released events and
\* update_input_state in any order, exactly one of is_key_down, is_key_held,
\* is_key_released and is_key_up is true of every key and button.
C28_ExactlyOneQueryIsTrue ==
    \A b \in Buttons : Cardinality(TrueQueries(active_keys, b)) = 1

(***************************************************************************)
(* The order of the calls of Game::run.                                    *)
(***************************************************************************)
\* The calls of one frame in the order the claim gives, the game objects'
\* end after their update when the game exits in the frame
FrameOrder(n, exits) ==
    [i \in 1 .. n |-> [fn |-> "update", go |-> i]]
    \o (IF exits THEN [i \in 1 .. n |-> [fn |-> "end", go |-> i]] ELSE <<>>)
    \o <<[fn |-> "update_input_state", go |-> 0],
         [fn |-> "graphics_update", go |-> 0],
         [fn |-> "render", go |-> 0]>>

\* C25: a frame calls update on every game object in insertion order, then
\* update_input_state, then the graphics update, then render; every update
\* finds the active keys as they were when the frame began, the keys are
\* advanced once, after the updates, and the render pass draws the panels
\* resolved in this frame against the screen size of this frame.
C25_FrameOrder ==
    op.name = "frame" =>
        /\ SubSeq(calls, op.calls + 1, Len(calls))
               = FrameOrder(Len(game_objects), exit)
        /\ seen_keys = [i \in 1 .. Len(game_objects) |-> op.active_keys]
        /\ active_keys = update_input_state(op.active_keys)
        /\ buffered_panels = update(panels, screen_size)
        /\ render_pass = gui_render(buffered_panels)

\* A second frame that found a key down and left it held, and drew the
\* panels
C25_Witness ==
    /\ op.name = "frame" /\ frames = 2
    /\ Len(seen_keys) = NumGameObjects
    /\ \E b \in Buttons :
          is_key_down(seen_keys[1], b) /\ is_key_held(active_keys, b)
    /\ render_pass # <<>>
    /\ render_pass = gui_render(update(panels, screen_size))

\* The number of calls of fn on the game object go
CallCount(fn, go) ==
    Cardinality({i \in 1 .. Len(calls) : calls[i] = [fn |-> fn, go |-> go]})

\* Some game object's start calls GameState::exit
ExitAtStart ==
    \E i \in 1 .. Len(game_objects) : game_objects[i].exit_on_start

\* C30: once Game::run has begun, the first calls are start on every game
\* object in insertion order, and there is no other start; when a start
\* requested exit, end is called once on every game object, no update is
\* called and nothing is rendered.
C30_StartsThenEndOnExit ==
    running # "new" =>
        /\ \A i \in 1 .. Len(calls) :
              /\ calls[i].fn = "start" <=> i <= Len(game_objects)
              /\ i <= Len(game_objects) => calls[i].go = i
        /\ Len(calls) >= Len(game_objects)
        /\ ExitAtStart =>
              /\ \A go \in 1 .. Len(game_objects) : CallCount("end", go) = 1
              /\ \A i \in 1 .. Len(calls) :
                    calls[i].fn \notin {"update", "render", "graphics_update"}
              /\ render_pass = <<>> /\ buffered_panels = <<>>
              /\ frames = 0

\* Game::run has returned after the second game object's start requested
\* exit
C30_Witness ==
    /\ running = "returned"
    /\ ~game_objects[1].exit_on_start /\ game_objects[2].exit_on_start
    /\ calls = <<[fn |-> "start", go |-> 1], [fn |-> "start", go |-> 2],
                 [fn |-> "end", go |-> 1], [fn |-> "end", go |-> 2]>>

(***************************************************************************)
(* The instances of a prefab.                                              *)
(***************************************************************************)
\* C29: every instantiate_prefab makes the number of transforms one larger,
\* leaves every transform there was as it was, and returns a handle whose
\* id is a key of the transforms and is the id of no other handle the game
\* keeps.
C29_InstantiateAddsOneFreshInstance ==
    op.name = "instantiate_prefab" =>
        /\ len(transforms) = len(op.transforms) + 1
        /\ \A id \in DOMAIN op.transforms :
              id \in DOMAIN transforms /\ transforms[id] = op.transforms[id]
        /\ op.instance.hash \in DOMAIN transforms
        /\ \A i \in 1 .. Len(op.instances) :
              op.instances[i].hash # op.instance.hash

(***************************************************************************)
(* The pixels of a line.                                                   *)
(***************************************************************************)
\* The positions ps, in order, take each value of the major axis once, in
\* steps of one, and move by at most one on the other axis at each step
OnePerMajorValue(ps, steep) ==
    \A i \in 1 .. Len(ps) - 1 :
        LET major == IF steep THEN ps[i + 1].y - ps[i].y
                     ELSE ps[i + 1].x - ps[i].x
            minor == IF steep THEN ps[i + 1].x - ps[i].x
                     ELSE ps[i + 1].y - ps[i].y
        IN major = 1 /\ Abs(minor) <= 1

\* C26: for any two endpoints a and b inside the surface, draw_line colors
\* a, b and exactly max(|dx|, |dy|) + 1 pixels, one for each value of the
\* major axis, consecutive ones at most one apart on the minor axis, and
\* no other cell changes.
C26_LineIsConnectedMajorAxisRun ==
    (op.name = "draw_line" /\ InBounds(op.start) /\ InBounds(op.end)) =>
        LET ps == line_positions(op.start, op.end)
            dx == Abs(op.end.x - op.start.x)
            dy == Abs(op.end.y - op.start.y)
            cells == {<<ps[i].x, ps[i].y>> : i \in 1 .. Len(ps)}
        IN /\ Len(ps) = Max(dx, dy) + 1
           /\ Cardinality(cells) = Max(dx, dy) + 1
           /\ <<op.start.x, op.start.y>> \in cells
           /\ <<op.end.x, op.end.y>> \in cells
           /\ OnePerMajorValue(ps, dy >= dx)
           /\ \A i \in 1 .. Len(ps) : InBounds(ps[i])
           /\ \A c \in cells :
                 image[c] = draw_color_point(pre, Point(c[1], c[2]),
                                             op.color)[c]
           /\ \A c \in DOMAIN image \ cells : image[c] = pre[c]

\* A line from the bottom right to the top left of the surface, three
\* steps on x and two on y, has colored four pixels
C26_Witness ==
    /\ op.name = "draw_line"
    /\ op.start = Point(3, 2) /\ op.end = Point(0, 0)
    /\ Changed = {<<0, 0>>, <<1, 1>>, <<2, 1>>, <<3, 2>>}

(***************************************************************************)
(* Rects of non-negative size under clamping.                              *)
(***************************************************************************)
NonNegative(x) == F32Le(F32FromInt(0), x)

\* The dimensions of the node's panel are Absolute, or Relative with
\* non-negative fractions, and its parent's dimensions are non-negative
NonNegativeSize(r) ==
    /\ r.panel.dimensions.kind = "Relative" =>
          /\ NonNegative(r.panel.dimensions.percentage_x)
          /\ NonNegative(r.panel.dimensions.percentage_y)
    /\ r.panel.dimensions.kind = "Absolute" =>
          r.panel.dimensions.x >= 0 /\ r.panel.dimensions.y >= 0
    /\ NonNegative(ParentDims(r)[1]) /\ NonNegative(ParentDims(r)[2])

\* Before clamping the node lies past the far end or before the near end of
\* its parent on an axis
OutsideParent(r, axis) ==
    \/ F32Le(Hi(r, axis), NearEdge(r, axis))
    \/ F32Le(FarEdge(r, axis), Lo(r, axis))

\* C27: a node whose dimensions are Absolute or Relative with non-negative
\* fractions, under a parent of non-negative dimensions, resolves to
\* left <= right and top <= bottom, and to equal edges on an axis on which
\* it lies entirely outside its parent.
C27_ClampKeepsRectOrder ==
    \A r \in AllResolved :
        NonNegativeSize(r) =>
            /\ F32Le(r.node.left, r.node.right)
            /\ F32Le(r.node.top, r.node.bottom)
            /\ OutsideParent(r, 1) => r.node.left = r.node.right
            /\ OutsideParent(r, 2) => r.node.top = r.node.bottom

\* A panel that ends to the left of its parent, which is not the screen:
\* resolved to zero width at the parent's left edge and to a positive
\* height
C27_Witness ==
    \E r \in AllResolved :
        /\ NonNegativeSize(r)
        /\ r.parent # Viewport
        /\ F32Lt(FarEdge(r, 1), Lo(r, 1))
        /\ r.node.left = r.node.right
        /\ r.node.left = Lo(r, 1)
        /\ F32Lt(r.node.top, r.node.bottom)

=============================================================================
